---- MODULE Spec2Model ----
(***************************************************************************)
(* Zoho email tool (skills/zoho-email-integration/scripts/zoho-email.py):  *)
(* the mailbox facade ZohoEmail over its two transports (ZohoRestAPIClient *)
(* and IMAP/SMTP), the bulk operation engine, and the OAuth2 token         *)
(* lifecycle.                                                              *)
(*                                                                         *)
(* A facade method is one action.  The servers decide the outcome of every *)
(* request, so a method is modelled as the SET of call states it can end   *)
(* in: every REST request, IMAP connect, SELECT, SEARCH, FETCH, STORE,     *)
(* COPY, EXPUNGE and CLOSE independently succeeds or fails.                *)
(***************************************************************************)
EXTENDS Integers, Sequences, FiniteSets, TLC

NMsg == 2          \* messages in the folder when the session starts
MaxIds == 2        \* longest id list a caller passes to a per-id method
MaxLimit == 2      \* largest `limit` argument tried
PreviewMax == 10   \* bulk_action: messages[:10] / email_ids[:10]
DefaultSearchDays == 30   \* DEFAULT_SEARCH_DAYS: ZOHO_SEARCH_DAYS, default '30'

VARIABLES
  mbox,        \* the folder on the server: sequence of [uid, seen, del]
  api_mode,    \* ZohoEmail.api_mode: "rest" | "imap"
  account_id,  \* ZohoRestAPIClient.account_id is cached (TRUE) or None (FALSE)
  imap,        \* ZohoEmail.imap: "none" | "open" | "auth" | "ro" | "rw"
  last,        \* the most recent facade call: its arguments, result and trace
  now,           \* int(time.time())
  token_file,    \* the token file on disk
  oauth_tokens,  \* ZohoEmail.oauth_tokens
  rest_tokens,   \* ZohoRestAPIClient.tokens
  authsrv,       \* the authorization server: valid refresh token, tokens issued
  session,       \* "none" | "ready": a ZohoEmail object exists
  tlast,         \* the most recent token-level operation and its trace
  auth_method,   \* ZohoEmail.auth_method: "oauth2" | "password"
  token_data,    \* the argument of an is_token_expired call
  answer,        \* what that call returned, and when
  environ,       \* the arguments and environment of a ZohoEmail(...) call
  obj,           \* the object it built, or how it failed
  report,        \* the doctor command: its report, what it did, its exit code
  imap_query,    \* the query argument of search_emails / bulk_action, as text
  search_query,  \* search_emails: the REST query it made of it
  rest_query,    \* bulk_action: the REST query it made of it
  argv,          \* sys.argv after the command name: the flags given
  stories,       \* run_technews: the stories of fetch_techmeme, in their order
  futures,       \* fetch_multiple: the submitted fetches that have not completed
  articles,      \* fetch_multiple: results, in the order as_completed gave them
  news_pc        \* run_technews: the step it is at

facadeVars == <<mbox, api_mode, account_id, imap, last>>
tokenVars ==
  <<now, token_file, oauth_tokens, rest_tokens, authsrv, session, tlast,
    auth_method>>
expiryVars == <<token_data, answer>>
initVars == <<environ, obj, report>>
translateVars == <<imap_query, search_query, rest_query>>
cliVars == <<argv>>
newsVars == <<stories, futures, articles, news_pc>>
toolVars == <<translateVars, cliVars, newsVars>>

-----------------------------------------------------------------------------
(* Sequences *)

Range(s) == {s[i] : i \in 1..Len(s)}
Reverse(s) == [i \in 1..Len(s) |-> s[Len(s) + 1 - i]]
Min(a, b) == IF a <= b THEN a ELSE b

\* Python s[:n] for n >= 0
FirstN(s, n) == SubSeq(s, 1, Min(n, Len(s)))

\* Python s[-n:] for n >= 0: s[-0:] is s[0:], the whole list
LastN(s, n) ==
  IF n = 0 \/ n >= Len(s) THEN s ELSE SubSeq(s, Len(s) - n + 1, Len(s))

SeqsUpTo(S, n) == UNION {[1..k -> S] : k \in 0..n}

-----------------------------------------------------------------------------
(* The mailbox.  An IMAP id is a message sequence number (the position in  *)
(* the folder); a REST id is the vendor's messageId, a different id space. *)

Uids == 1..NMsg
RestId(uid) == NMsg + uid
IsRestId(id) == id > NMsg
Subject(uid) == IF uid % 2 = 0 THEN "news" ELSE "other"

Queries == {"ALL", "SUBJECT news", "SUBJECT none"}
Limits == 0..MaxLimit
Actions == {"mark-read", "mark-unread", "delete"}

\* the action argument: the three actions, and 'move' of the docstring
ActionArgs == Actions \cup {"move"}

\* the search_days argument: 0 stands for None
SearchDays == {0, 7}

\* search_days = search_days or DEFAULT_SEARCH_DAYS
Days(search_days) == IF search_days = 0 THEN DefaultSearchDays ELSE search_days

\* f'({query} SINCE {since_date})'
Since(query) ==
  CASE query = "ALL" -> "(ALL SINCE)"
    [] query = "SUBJECT news" -> "(SUBJECT news SINCE)"
    [] OTHER -> "(SUBJECT none SINCE)"

\* m.old: the message is older than the recency window
Matches(m, query) ==
  \/ query = "ALL"
  \/ query = "SUBJECT news" /\ Subject(m.uid) = "news"
  \/ query = "(ALL SINCE)" /\ ~m.old
  \/ query = "(SUBJECT news SINCE)" /\ Subject(m.uid) = "news" /\ ~m.old

Positions(mb) == [i \in 1..Len(mb) |-> i]

\* imap.search: the sequence numbers of the matching messages, ascending
ImapSearch(mb, query) ==
  LET hit(i) == Matches(mb[i], query) IN SelectSeq(Positions(mb), hit)

\* GET /messages/search or /messages/view with limit: newest first
RestSearch(mb, query, limit) ==
  LET hit(i) == Matches(mb[i], query)
      pos == Reverse(SelectSeq(Positions(mb), hit))
  IN FirstN([i \in 1..Len(pos) |-> RestId(mb[pos[i]].uid)], limit)

NMatch(mb, query) == Len(ImapSearch(mb, query))

SetFlag(mb, pos, flag) ==
  CASE flag = "+Seen"    -> [mb EXCEPT ![pos].seen = TRUE]
    [] flag = "-Seen"    -> [mb EXCEPT ![pos].seen = FALSE]
    [] flag = "+Deleted" -> [mb EXCEPT ![pos].del = TRUE]

\* EXPUNGE, and CLOSE of a folder selected read-write
Expunged(mb) == LET keep(m) == ~m.del IN SelectSeq(mb, keep)

HasDeleted(mb) == \E i \in 1..Len(mb) : mb[i].del

RestMarkSeen(mb, ids, seen) ==
  [i \in 1..Len(mb) |->
     IF RestId(mb[i].uid) \in Range(ids) THEN [mb[i] EXCEPT !.seen = seen]
     ELSE mb[i]]

RestRemove(mb, id) ==
  LET keep(m) == RestId(m.uid) # id IN SelectSeq(mb, keep)

RestRemove2(mb, ids) ==
  LET keep(m) == RestId(m.uid) \notin Range(ids) IN SelectSeq(mb, keep)

-----------------------------------------------------------------------------
(* Call state: what one facade call has done so far. *)

Start(mb, acct) ==
  [mb |-> mb, acct |-> acct, imap |-> "none",
   out |-> "run",            \* "run" | "ret" | "raise"
   res |-> "none",           \* shape of the value returned
   val |-> <<>>,             \* ids found by the search of this call
   hasFolder |-> FALSE,      \* delete_messages / move_messages: folder_id found
   success |-> <<>>, failed |-> <<>>,
   total |-> 0, toproc |-> 0, preview |-> 0,
   restFail |-> FALSE,       \* a REST request raised (transport level)
   restNon200 |-> FALSE,     \* a REST response carried a status code other than 200
   imapFail |-> FALSE,       \* connect, SEARCH, FETCH-by-id, EXPUNGE or SMTP failed
   imapAttempts |-> 0,       \* connect_imap calls and SMTP sessions
   restReqs |-> 0,           \* REST requests sent
   mut |-> {},               \* mutating transport operations issued
   imapIds |-> {}, restIds |-> {},   \* ids passed to each transport
   expunges |-> <<>>]        \* EXPUNGE commands issued: [after, conn, status]

Ret(s) == [s EXCEPT !.out = "ret"]
Raise(s) == [s EXCEPT !.out = "raise"]
Run(s) == [s EXCEPT !.out = "run"]

\* results = {"success": [], "failed": []}
Fresh(s) == [s EXCEPT !.success = <<>>, !.failed = <<>>]

-----------------------------------------------------------------------------
(* ZohoRestAPIClient.  One _make_request call is one exchange whose        *)
(* outcome is "ok" (a body with status code 200), "non200" (a body with    *)
(* another status code) or "raise" (the request failed).                   *)

make_request(s, kind, ids) ==
  LET r == [s EXCEPT !.restReqs = @ + 1, !.mut = @ \cup kind,
                     !.restIds = @ \cup ids]
  IN {[st |-> r, resp |-> "ok"],
      [st |-> [r EXCEPT !.restNon200 = TRUE], resp |-> "non200"],
      [st |-> [r EXCEPT !.restFail = TRUE], resp |-> "raise"]}

get_account_id(s) ==
  IF s.acct THEN {Ret(s)}
  ELSE {IF x.resp = "ok" THEN Ret([x.st EXCEPT !.acct = TRUE]) ELSE Raise(x.st)
        : x \in make_request(s, {}, {})}

list_messages(s, query, limit) ==
  UNION {IF a.out = "raise" THEN {a}
         ELSE {CASE x.resp = "ok" ->
                      Ret([x.st EXCEPT !.val = RestSearch(x.st.mb, query, limit)])
                 [] x.resp = "non200" -> Ret([x.st EXCEPT !.val = <<>>])
                 [] OTHER -> Raise(x.st)
               : x \in make_request(Run(a), {}, {})}
         : a \in get_account_id(s)}

list_folders(s) ==
  UNION {IF a.out = "raise" THEN {a}
         ELSE {CASE x.resp = "ok" -> Ret([x.st EXCEPT !.hasFolder = TRUE])
                 [] x.resp = "non200" -> Ret([x.st EXCEPT !.hasFolder = FALSE])
                 [] OTHER -> Raise(x.st)
               : x \in make_request(Run(a), {}, {})}
         : a \in get_account_id(s)}

Partition(s, ok, bad) ==
  Ret([s EXCEPT !.res = "partition", !.success = ok, !.failed = bad])

\* ZohoRestAPIClient.mark_as_read (seen = TRUE) and mark_as_unread
rest_mark(s, message_ids, seen) ==
  IF message_ids = <<>> THEN {Partition(s, <<>>, <<>>)}
  ELSE UNION
    {IF a.out = "raise" THEN {a}
     ELSE {IF x.resp = "ok"
           THEN Partition([x.st EXCEPT !.mb = RestMarkSeen(@, message_ids, seen)],
                          message_ids, <<>>)
           ELSE Partition(x.st, <<>>, message_ids)
           : x \in make_request(Run(a), {"rest_update"}, Range(message_ids))}
     : a \in get_account_id(s)}

rest_delete_one(s, message_id) ==
  {IF x.resp = "ok"
   THEN [x.st EXCEPT !.success = Append(@, message_id),
                     !.mb = RestRemove(@, message_id)]
   ELSE [x.st EXCEPT !.failed = Append(@, message_id)]
   : x \in make_request(s, {"rest_delete"}, {message_id})}

RECURSIVE rest_delete_loop(_, _)
rest_delete_loop(s, message_ids) ==
  IF message_ids = <<>> THEN {s}
  ELSE UNION {rest_delete_loop(t, Tail(message_ids))
              : t \in rest_delete_one(s, Head(message_ids))}

delete_messages(s, message_ids) ==
  IF message_ids = <<>> THEN {Partition(s, <<>>, <<>>)}
  ELSE UNION
    {IF a.out = "raise" THEN {a}
     ELSE UNION
       {IF f.out = "raise" THEN {f}
        ELSE IF ~f.hasFolder THEN {Partition(f, <<>>, message_ids)}
        ELSE {Partition(t, t.success, t.failed)
              : t \in rest_delete_loop(Fresh(Run(f)), message_ids)}
        : f \in list_folders(Run(a))}
     : a \in get_account_id(s)}

move_messages(s, message_ids) ==
  IF message_ids = <<>> THEN {Partition(s, <<>>, <<>>)}
  ELSE UNION
    {IF a.out = "raise" THEN {a}
     ELSE UNION
       {IF f.out = "raise" THEN {f}
        ELSE IF ~f.hasFolder THEN {Partition(f, <<>>, message_ids)}
        ELSE {IF x.resp = "ok"
              THEN Partition([x.st EXCEPT !.mb = RestRemove2(@, message_ids)],
                             message_ids, <<>>)
              ELSE Partition(x.st, <<>>, message_ids)
              : x \in make_request(Run(f), {"rest_update"}, Range(message_ids))}
        : f \in list_folders(Run(a))}
     : a \in get_account_id(s)}

send_message(s) ==
  UNION {IF a.out = "raise" THEN {a}
         ELSE {IF x.resp = "ok" THEN Ret([x.st EXCEPT !.res = "sent"])
               ELSE Raise(x.st)
               : x \in make_request(Run(a), {}, {})}
         : a \in get_account_id(s)}

-----------------------------------------------------------------------------
(* IMAP and SMTP primitives of ZohoEmail. *)

\* connect_imap: IMAP4_SSL(...) then authenticate/login; raises ConnectionError
connect_imap(s) ==
  LET c == [s EXCEPT !.imapAttempts = @ + 1] IN
  {Ret([c EXCEPT !.imap = "auth"]),
   Raise([c EXCEPT !.imapFail = TRUE]),                   \* no socket: self.imap as before
   Raise([c EXCEPT !.imapFail = TRUE, !.imap = "open"])}  \* login rejected

\* disconnect_imap: close() (which expunges a read-write folder), logout(),
\* both with their exceptions swallowed; self.imap = None
disconnect_imap(s) ==
  IF s.imap = "none" THEN {s}
  ELSE LET d == [s EXCEPT !.imap = "none"] IN
       IF s.imap = "rw" /\ HasDeleted(s.mb)
       THEN {[d EXCEPT !.mb = Expunged(@)], d}
       ELSE {d}

Finally_leaks(S) == S

\* try: ... finally: self.disconnect_imap()
Finally(S) == UNION {disconnect_imap(s) : s \in S}

select_read_write(s, readonly) ==
  {Ret([s EXCEPT !.imap = "rw", !.mut = @ \cup {"imap_select_rw"}]),
   Ret(s),
   Raise([s EXCEPT !.imapFail = TRUE])}

\* imap.select(folder, readonly): the status it returns is not looked at
select(s, readonly) ==
  {Ret([s EXCEPT !.imap = IF readonly THEN "ro" ELSE "rw",
                 !.mut = IF readonly THEN @ ELSE @ \cup {"imap_select_rw"}]),
   Ret(s),                                   \* NO: no folder selected
   Raise([s EXCEPT !.imapFail = TRUE])}

Selected(s) == s.imap \in {"ro", "rw"}

\* imap.search(None, query) followed by  if status != 'OK': raise
search(s, query) ==
  {Raise([s EXCEPT !.imapFail = TRUE])} \cup
  (IF Selected(s) THEN {Ret([s EXCEPT !.val = ImapSearch(s.mb, query)])} ELSE {})

\* imap.store(id, flags): "ok", "no" or "raise"
store(s, id, flag) ==
  LET t == [s EXCEPT !.mut = @ \cup {"imap_store"},
                     !.imapIds = @ \cup {id}]
  IN {[st |-> t, status |-> "no"], [st |-> t, status |-> "raise"]} \cup
     (IF t.imap = "rw" /\ id \in 1..Len(t.mb)
      THEN {[st |-> [t EXCEPT !.mb = SetFlag(@, id, flag)], status |-> "ok"]}
      ELSE {})

\* imap.copy(id, target_folder)
copy(s, id) ==
  LET t == [s EXCEPT !.mut = @ \cup {"imap_copy"}, !.imapIds = @ \cup {id}]
  IN {[st |-> t, status |-> "no"], [st |-> t, status |-> "raise"]} \cup
     (IF Selected(t) /\ id \in 1..Len(t.mb)
      THEN {[st |-> t, status |-> "ok"]} ELSE {})

\* imap.expunge(): it raises (always so when no folder is selected), or the
\* server answers OK, or it answers NO and expunge returns that status; the
\* command is logged with the number of ids recorded before it and with the
\* state of the connection
expunge(s) ==
  LET t(status) ==
        [s EXCEPT !.mut = @ \cup {"imap_expunge"},
                  !.expunges = Append(@, [after |-> Len(s.success) + Len(s.failed),
                                          conn |-> s.imap, status |-> status])]
  IN {Raise([t("raise") EXCEPT !.imapFail = TRUE])} \cup
     (IF s.imap = "rw"
      THEN {Ret([t("ok") EXCEPT !.mb = Expunged(@)]), Ret(t("no"))}
      ELSE {})

\* imap.fetch of every id of ids; a failed fetch is skipped (continue)
fetch_each(s, ids) ==
  {[s EXCEPT !.imapIds = @ \cup Range(ids),
             !.val = LET got(id) == id \in K IN SelectSeq(ids, got)]
   : K \in IF Selected(s) THEN SUBSET Range(ids) ELSE {{}}}

-----------------------------------------------------------------------------
(* ZohoEmail: the facade methods.  mode is self.api_mode. *)

RECURSIVE store_loop(_, _, _)
store_loop(s, email_ids, flag) ==
  IF email_ids = <<>> THEN {s}
  ELSE UNION
    {store_loop(IF x.status = "ok"
                THEN [x.st EXCEPT !.success = Append(@, Head(email_ids))]
                ELSE [x.st EXCEPT !.failed = Append(@, Head(email_ids))],
                Tail(email_ids), flag)
     : x \in store(s, Head(email_ids), flag)}

imap_mark_aborts(s, email_ids, flag) ==
  Finally(UNION
    {IF c.out = "raise" THEN {c}
     ELSE UNION
       {IF sel.out = "raise" THEN {sel}
        ELSE {IF t.failed # <<>> THEN Raise(t)
              ELSE Partition(t, t.success, t.failed)
              : t \in store_loop(Fresh(Run(sel)), email_ids, flag)}
        : sel \in select(Run(c), FALSE)}
     : c \in connect_imap(s)})

\* the IMAP half of mark_as_read (flag "+Seen") and mark_as_unread ("-Seen")
imap_mark(s, email_ids, flag) ==
  Finally(UNION
    {IF c.out = "raise" THEN {c}
     ELSE UNION
       {IF sel.out = "raise" THEN {sel}
        ELSE {Partition(t, t.success, t.failed)
              : t \in store_loop(Fresh(Run(sel)), email_ids, flag)}
        : sel \in select(Run(c), FALSE)}
     : c \in connect_imap(s)})

mark_as_read(s, mode, email_ids) ==
  IF email_ids = <<>> THEN {Raise(s)}
  ELSE IF mode = "rest"
  THEN UNION {IF r.out = "ret" THEN {r}
              ELSE imap_mark(Run(r), email_ids, "+Seen")
              : r \in rest_mark(s, email_ids, TRUE)}
  ELSE imap_mark(s, email_ids, "+Seen")

mark_as_unread(s, mode, email_ids) ==
  IF email_ids = <<>> THEN {Raise(s)}
  ELSE IF mode = "rest"
  THEN UNION {IF r.out = "ret" THEN {r}
              ELSE imap_mark(Run(r), email_ids, "-Seen")
              : r \in rest_mark(s, email_ids, FALSE)}
  ELSE imap_mark(s, email_ids, "-Seen")

imap_delete(s, email_ids) ==
  Finally(UNION
    {IF c.out = "raise" THEN {c}
     ELSE UNION
       {IF sel.out = "raise" THEN {sel}
        ELSE UNION
          {{IF e.out = "raise" THEN e ELSE Partition(e, e.success, e.failed)
            : e \in expunge(t)}
           : t \in store_loop(Fresh(Run(sel)), email_ids, "+Deleted")}
        : sel \in select(Run(c), FALSE)}
     : c \in connect_imap(s)})

delete_emails(s, mode, email_ids) ==
  IF email_ids = <<>> THEN {Raise(s)}
  ELSE IF mode = "rest"
  THEN UNION {IF r.out = "ret" THEN {r} ELSE imap_delete(Run(r), email_ids)
              : r \in delete_messages(s, email_ids)}
  ELSE imap_delete(s, email_ids)

move_one_forgets_failed(s, id) ==
  UNION
    {IF c.status = "ok"
     THEN {IF x.status = "raise"
           THEN x.st
           ELSE [x.st EXCEPT !.success = Append(@, id)]
           : x \in store(c.st, id, "+Deleted")}
     ELSE {c.st}
     : c \in copy(s, id)}

\* one turn of the move loop: copy, then store \Deleted (status not looked at)
move_one(s, id) ==
  UNION
    {IF c.status = "ok"
     THEN {IF x.status = "raise"
           THEN [x.st EXCEPT !.failed = Append(@, id)]
           ELSE [x.st EXCEPT !.success = Append(@, id)]
           : x \in store(c.st, id, "+Deleted")}
     ELSE {[c.st EXCEPT !.failed = Append(@, id)]}
     : c \in copy(s, id)}

RECURSIVE move_loop(_, _)
move_loop(s, email_ids) ==
  IF email_ids = <<>> THEN {s}
  ELSE UNION {move_loop(t, Tail(email_ids)) : t \in move_one(s, Head(email_ids))}

imap_move(s, email_ids) ==
  Finally(UNION
    {IF c.out = "raise" THEN {c}
     ELSE UNION
       {IF sel.out = "raise" THEN {sel}
        ELSE UNION
          {{IF e.out = "raise" THEN e ELSE Partition(e, e.success, e.failed)
            : e \in expunge(t)}
           : t \in move_loop(Fresh(Run(sel)), email_ids)}
        : sel \in select(Run(c), FALSE)}
     : c \in connect_imap(s)})

move_emails(s, mode, email_ids, target_folder) ==
  IF email_ids = <<>> THEN {Raise(s)}
  ELSE IF ~target_folder THEN {Raise(s)}
  ELSE IF mode = "rest"
  THEN UNION {IF r.out = "ret" THEN {r} ELSE imap_move(Run(r), email_ids)
              : r \in move_messages(s, email_ids)}
  ELSE imap_move(s, email_ids)

imap_search_emails(s, query, limit, search_days) ==
  Finally(UNION
    {IF c.out = "raise" THEN {c}
     ELSE UNION
       {IF sel.out = "raise" THEN {sel}
        ELSE UNION
          {IF f.out = "raise" THEN {f}
           ELSE {Ret([p EXCEPT !.res = "list"])
                 : p \in fetch_each(Run(f), LastN(f.val, limit))}
           : f \in search(Run(sel),
                          IF Days(search_days) > 0 /\ query # "ALL"
                          THEN Since(query) ELSE query)}
        : sel \in select(Run(c), TRUE)}
     : c \in connect_imap(s)})

search_emails(s, mode, query, limit, search_days) ==
  IF mode = "rest"
  THEN UNION {IF m.out = "ret" THEN {[m EXCEPT !.res = "list"]}
              ELSE imap_search_emails(Run(m), query, limit, search_days)
              : m \in list_messages(s, query, limit)}
  ELSE imap_search_emails(s, query, limit, search_days)

get_email_connects_first(s, email_id) ==
  Finally(UNION
    {IF c.out = "raise" THEN {c}
     ELSE IF email_id = 0 THEN {Raise(c)}
     ELSE UNION
       {IF sel.out = "raise" THEN {sel}
        ELSE LET t == [Run(sel) EXCEPT !.imapIds = @ \cup {email_id}] IN
             {Raise([t EXCEPT !.imapFail = TRUE])} \cup
             (IF Selected(t) /\ email_id \in 1..Len(t.mb)
              THEN {Ret([t EXCEPT !.res = "message"])} ELSE {})
        : sel \in select(Run(c), TRUE)}
     : c \in connect_imap(s)})

\* get_email: email_id 0 stands for a missing (None / empty) id
get_email(s, email_id) ==
  IF email_id = 0 THEN {Raise(s)}
  ELSE Finally(UNION
    {IF c.out = "raise" THEN {c}
     ELSE UNION
       {IF sel.out = "raise" THEN {sel}
        ELSE LET t == [Run(sel) EXCEPT !.imapIds = @ \cup {email_id}] IN
             {Raise([t EXCEPT !.imapFail = TRUE])} \cup
             (IF Selected(t) /\ email_id \in 1..Len(t.mb)
              THEN {Ret([t EXCEPT !.res = "message"])} ELSE {})
        : sel \in select(Run(c), TRUE)}
     : c \in connect_imap(s)})

\* get_attachments: the attachment list of the fetched message
get_attachments(s, email_id) ==
  IF email_id = 0 THEN {Raise(s)}
  ELSE Finally(UNION
    {IF c.out = "raise" THEN {c}
     ELSE UNION
       {IF sel.out = "raise" THEN {sel}
        ELSE LET t == [Run(sel) EXCEPT !.imapIds = @ \cup {email_id}] IN
             {Raise([t EXCEPT !.imapFail = TRUE])} \cup
             (IF Selected(t) /\ email_id \in 1..Len(t.mb)
              THEN {Ret([t EXCEPT !.res = "attachments"])} ELSE {})
        : sel \in select(Run(c), TRUE)}
     : c \in connect_imap(s)})

\* download_attachment: found says the message has an attachment at the index
download_attachment(s, email_id, found) ==
  IF email_id = 0 THEN {Raise(s)}
  ELSE Finally(UNION
    {IF c.out = "raise" THEN {c}
     ELSE UNION
       {IF sel.out = "raise" THEN {sel}
        ELSE LET t == [Run(sel) EXCEPT !.imapIds = @ \cup {email_id}] IN
             {Raise([t EXCEPT !.imapFail = TRUE])} \cup
             (IF Selected(t) /\ email_id \in 1..Len(t.mb)
              THEN {IF found THEN Ret([t EXCEPT !.res = "file"]) ELSE Raise(t)}
              ELSE {})
        : sel \in select(Run(c), TRUE)}
     : c \in connect_imap(s)})

Unseen(mb) == Cardinality({i \in 1..Len(mb) : ~mb[i].seen})

imap_unread_count(s) ==
  Finally(UNION
    {IF c.out = "raise" THEN {c}
     ELSE UNION
       {IF sel.out = "raise" THEN {sel}
        ELSE UNION
          {IF f.out = "raise" THEN {f}
           ELSE {Ret([f EXCEPT !.res = "count", !.total = Unseen(f.mb),
                               !.val = <<>>])}
           : f \in search(Run(sel), "ALL")}
        : sel \in select(Run(c), TRUE)}
     : c \in connect_imap(s)})

get_unread_count(s, mode) ==
  IF mode = "rest"
  THEN UNION {IF m.out = "ret"
              THEN {[m EXCEPT !.res = "count", !.val = <<>>,
                              !.total = IF m.val = <<>> THEN 0 ELSE Unseen(m.mb)]}
              ELSE imap_unread_count(Run(m))
              : m \in list_messages(s, "ALL", 1)}
  ELSE imap_unread_count(s)

\* the SMTP half of send_email: SMTP_SSL, _smtp_login, send_message
smtp_send(s) ==
  LET t == [s EXCEPT !.imapAttempts = @ + 1] IN
  {Ret([t EXCEPT !.res = "sent"]), Raise([t EXCEPT !.imapFail = TRUE])}

send_email_rest_first(s, mode) ==
  UNION {IF r.out = "ret" THEN {r} ELSE smtp_send(Run(r))
         : r \in send_message(s)}

\* send_email: REST when api_mode is rest, SMTP otherwise and on REST failure
send_email(s, mode) ==
  IF mode = "rest"
  THEN UNION {IF r.out = "ret" THEN {r} ELSE smtp_send(Run(r))
              : r \in send_message(s)}
  ELSE smtp_send(s)

-----------------------------------------------------------------------------
(* ZohoEmail.bulk_action *)

\* if action == 'mark-read': ... elif ... else: raise ValueError
dispatch(s, mode, action, email_ids) ==
  CASE action = "mark-read"   -> mark_as_read(s, mode, email_ids)
    [] action = "mark-unread" -> mark_as_unread(s, mode, email_ids)
    [] action = "delete"      -> delete_emails(s, mode, email_ids)
    [] OTHER                  -> {Raise(s)}

\* the part of bulk_action under "# IMAP fallback"
bulk_imap(s, mode, query, action, limit, dry_run, search_days) ==
  Finally(UNION
    {IF c.out = "raise" THEN {c}
     ELSE UNION
       {IF sel.out = "raise" THEN {sel}
        ELSE UNION
          {IF f.out = "raise" THEN {f}
           ELSE LET email_ids == LastN(f.val, limit)
                    g == [Run(f) EXCEPT !.total = Len(f.val), !.val = email_ids]
                IN IF dry_run
                   THEN {Ret([p EXCEPT !.res = "dry", !.toproc = Len(email_ids),
                                       !.preview = Len(p.val), !.val = email_ids])
                         : p \in fetch_each(g, FirstN(email_ids, PreviewMax))}
                   ELSE UNION {dispatch(d, mode, action, email_ids)
                               : d \in disconnect_imap(g)}
           : f \in search(Run(sel),
                          IF Days(search_days) > 0 THEN Since(query) ELSE query)}
        : sel \in select(Run(c), dry_run)}
     : c \in connect_imap(s)})

bulk_action(s, mode, query, action, limit, dry_run, search_days) ==
  IF mode = "rest"
  THEN UNION
    {IF m.out = "raise"
     THEN bulk_imap(Run(m), mode, query, action, limit, dry_run,
                    search_days)
     ELSE LET messages == m.val
              g == [Run(m) EXCEPT !.total = Len(messages)]
          IN IF dry_run
             THEN {Ret([g EXCEPT !.res = "dry", !.toproc = Len(messages),
                                 !.preview = Len(FirstN(messages, PreviewMax))])}
             ELSE UNION
               {IF r.out = "ret" THEN {r}
                ELSE bulk_imap(Run(r), mode, query, action, limit, dry_run,
                               search_days)
                : r \in dispatch(g, mode, action, messages)}
     : m \in list_messages(s, query, limit)}
  ELSE bulk_imap(s, mode, query, action, limit, dry_run, search_days)

-----------------------------------------------------------------------------
(* OAuth2 tokens.  A token record is the content of the token file; access *)
(* and refresh tokens are numbered in the order the server issues them.    *)

DefaultExpiresIn == 3600   \* token_data.get('expires_in', 3600)
ExpiryMargin == 300        \* now >= (expires_at - 300)
MaxRetries == 3            \* ZOHO_MAX_RETRIES, default '3'

MaxIssued == 3             \* access tokens the authorization server issues
MaxTicks == 4              \* clock steps taken

\* the lifetimes the server grants: the usual one, and one inside the margin
ExpiresIns == {DefaultExpiresIn, ExpiryMargin}

\* dict.get(key, default)
Get(f, key, default) == IF key \in DOMAIN f THEN f[key] ELSE default

is_token_expired_after(token_data_, t) ==
  LET created_at == Get(token_data_, "created_at", 0)
      expires_in == Get(token_data_, "expires_in", DefaultExpiresIn)
      expires_at == created_at + expires_in
  IN t > (expires_at - ExpiryMargin)

\* is_token_expired(token_data), t being int(time.time())
is_token_expired(token_data_, t) ==
  LET created_at == Get(token_data_, "created_at", 0)
      expires_in == Get(token_data_, "expires_in", DefaultExpiresIn)
      expires_at == created_at + expires_in
  IN t >= (expires_at - ExpiryMargin)

NoTokens ==
  [access_token |-> 0, refresh_token |-> 0, expires_in |-> 0, created_at |-> 0,
   client_id |-> 0]

\* a token file that was opened for writing and not written to the end
TornFile ==
  [access_token |-> -1, refresh_token |-> -1, expires_in |-> -1,
   created_at |-> -1, client_id |-> -1]

NoTokenCall ==
  [op |-> "none", out |-> "ret", at |-> 0, events |-> {}, reqs |-> <<>>,
   refreshes |-> {},
   before |-> [file |-> NoTokens, mem |-> NoTokens, rest |-> NoTokens]]

\* what one token-level operation has done so far
TokenStart(file, mem, rest, auth) ==
  [file |-> file, mem |-> mem, rest |-> rest, auth |-> auth,
   out |-> "run",
   events |-> {},     \* token-endpoint requests made: who, expired?, token
                      \* sent, the refresh token valid at the server
   hdr |-> 0,         \* the access token of the Authorization header
   reqs |-> <<>>,     \* REST requests sent: [token, status]
   refreshes |-> {}]  \* refreshes completed: [before, body, after, file]

\* POST ZOHO_TOKEN_URL with grant_type=refresh_token: the request fails, or
\* the server answers with a JSON body; it issues a token to the holder of the
\* valid refresh token and may rotate the refresh token
token_endpoint(auth, sent) ==
  {[auth |-> auth, raised |-> TRUE, body |-> [error |-> "request failed"]],
   [auth |-> auth, raised |-> FALSE, body |-> [error |-> "invalid_code"]]} \cup
  (IF sent = auth.rt /\ auth.issued < MaxIssued
   THEN LET at == auth.issued + 1
            same == [auth EXCEPT !.issued = at]
            rotated == [rt |-> auth.rt + 1, issued |-> at]
        IN {[auth |-> same, raised |-> FALSE,
             body |-> [access_token |-> at, expires_in |-> e]]
            : e \in ExpiresIns} \cup
           {[auth |-> rotated, raised |-> FALSE,
             body |-> [access_token |-> at, expires_in |-> e,
                       refresh_token |-> rotated.rt]]
            : e \in ExpiresIns} \cup
           {[auth |-> same, raised |-> FALSE, body |-> [access_token |-> at]]}
   ELSE {})

\* refresh_oauth_token(client_id, client_secret, refresh_token)
refresh_oauth_token(k, by, expired, sent) ==
  {[st |-> [k EXCEPT !.auth = x.auth,
                     !.events = @ \cup {[by |-> by, expired |-> expired,
                                         sent |-> sent, valid |-> k.auth.rt]}],
    raised |-> x.raised, body |-> x.body]
   : x \in token_endpoint(k.auth, sent)}

\* with open(token_path, 'w') as f: json.dump(token_data, f): open truncates
\* the file and json.dump writes it piece by piece; the file is written, or
\* open fails, or the writing stops before the end
write_token_file(k, token_data_) ==
  {Run([k EXCEPT !.file = token_data_]),
   Raise(k),
   Raise([k EXCEPT !.file = TornFile])}

\* save_oauth_tokens(token_data, token_path): makedirs, write, chmod
save_oauth_tokens(k, token_data_) ==
  {Raise(k)} \cup write_token_file(k, token_data_)

\* the refresh has been completed: what it started from, what the server
\* sent, what the record and the file are now
Refreshed(k, before, body, after) ==
  IF k.out = "raise" THEN k
  ELSE [k EXCEPT !.refreshes = @ \cup {[before |-> before, body |-> body,
                                        after |-> after, file |-> k.file]}]

refresh_token_keeps_old(k, t, by) ==
  UNION
    {IF x.raised \/ "access_token" \notin DOMAIN x.body THEN {Raise(x.st)}
     ELSE LET m1 == [x.st.mem EXCEPT !.access_token = x.body.access_token]
          IN IF "expires_in" \notin DOMAIN x.body
             THEN {Raise([x.st EXCEPT !.mem = m1])}
             ELSE LET m3 == [m1 EXCEPT !.expires_in = x.body.expires_in,
                                       !.created_at = t]
                  IN {Refreshed(w, k.mem, x.body, m3)
                      : w \in save_oauth_tokens([x.st EXCEPT !.mem = m3], m3)}
     : x \in refresh_oauth_token(k, by, is_token_expired(k.mem, t),
                                 k.mem.refresh_token)}

\* ZohoEmail.refresh_token(): no expiry test of its own
refresh_token(k, t, by) ==
  UNION
    {IF x.raised \/ "access_token" \notin DOMAIN x.body THEN {Raise(x.st)}
     ELSE LET m1 == [x.st.mem EXCEPT !.access_token = x.body.access_token]
              m2 == IF "refresh_token" \in DOMAIN x.body
                    THEN [m1 EXCEPT !.refresh_token = x.body.refresh_token]
                    ELSE m1
          IN IF "expires_in" \notin DOMAIN x.body
             THEN {Raise([x.st EXCEPT !.mem = m2])}
             ELSE LET m3 == [m2 EXCEPT !.expires_in = x.body.expires_in,
                                       !.created_at = t]
                  IN {Refreshed(w, k.mem, x.body, m3)
                      : w \in save_oauth_tokens([x.st EXCEPT !.mem = m3], m3)}
     : x \in refresh_oauth_token(k, by, is_token_expired(k.mem, t),
                                 k.mem.refresh_token)}

\* ZohoRestAPIClient._refresh_token_if_needed()
refresh_token_if_needed(k, t) ==
  IF is_token_expired(k.rest, t)
  THEN UNION
    {IF x.raised \/ "access_token" \notin DOMAIN x.body THEN {Raise(x.st)}
     ELSE LET m1 == [x.st.rest EXCEPT !.access_token = x.body.access_token]
              m2 == IF "refresh_token" \in DOMAIN x.body
                    THEN [m1 EXCEPT !.refresh_token = x.body.refresh_token]
                    ELSE m1
          IN IF "expires_in" \notin DOMAIN x.body
             THEN {Raise([x.st EXCEPT !.rest = m2])}
             ELSE LET m3 == [m2 EXCEPT !.expires_in = x.body.expires_in,
                                       !.created_at = t]
                  IN {Refreshed(w, k.rest, x.body, m3)
                      : w \in save_oauth_tokens([x.st EXCEPT !.rest = m3], m3)}
     : x \in refresh_oauth_token(k, "_make_request", is_token_expired(k.rest, t),
                                 k.rest.refresh_token)}
  ELSE {k}

\* one turn of  for attempt in range(max_retries)  and the turns after it
RECURSIVE request_loop(_, _, _)
request_loop(k, t, attempt) ==
  IF attempt = MaxRetries THEN {Raise(k)}       \* "Max retries exceeded"
  ELSE UNION
    {LET k1 == [k EXCEPT !.reqs = Append(@, [token |-> k.hdr, status |-> status])]
         except(e) == IF attempt = MaxRetries - 1 THEN {Raise(e)}
                      ELSE request_loop(Run(e), t, attempt + 1)
     IN CASE status = "200" -> {Ret(k1)}
          [] status = "429" -> request_loop(k1, t, attempt + 1)
          [] status = "401" ->
               UNION {IF r.out = "raise" THEN except(r)
                      ELSE request_loop([r EXCEPT !.hdr = r.rest.access_token],
                                        t, attempt + 1)
                      : r \in refresh_token_if_needed(k1, t)}
          [] OTHER -> except(k1)
     : status \in {"200", "429", "401", "error"}}

make_request_auth_one_more(k, t) ==
  UNION {IF r.out = "raise" THEN {r}
         ELSE request_loop([r EXCEPT !.hdr = r.rest.access_token], t, 0 - 1)
         : r \in refresh_token_if_needed(k, t)}

\* ZohoRestAPIClient._make_request: refresh if needed, then the attempts
make_request_auth(k, t) ==
  UNION {IF r.out = "raise" THEN {r}
         ELSE request_loop([r EXCEPT !.hdr = r.rest.access_token], t, 0)
         : r \in refresh_token_if_needed(k, t)}

ensure_fresh_always(k, t, by) == refresh_token(k, t, by)

\* if is_token_expired(self.oauth_tokens): self.refresh_token()
ensure_fresh(k, t, by) ==
  IF is_token_expired(k.mem, t) THEN refresh_token(k, t, by) ELSE {k}

\* ZohoEmail._setup_oauth2: load the file, refresh if expired
setup_oauth2(k, t) ==
  IF k.file = TornFile THEN {Raise(k)}       \* json.load fails
  ELSE {IF r.out = "raise" THEN r ELSE Run(r)
        : r \in ensure_fresh([k EXCEPT !.mem = k.file], t, "_setup_oauth2")}

\* oauth-setup.py refresh: load the file, refresh, write the file
refresh_token_cmd(k, t) ==
  IF k.file = TornFile THEN {Raise(k)}
  ELSE UNION
    {IF x.raised \/ "access_token" \notin DOMAIN x.body THEN {Raise(x.st)}
     ELSE LET m1 == [k.file EXCEPT !.access_token = x.body.access_token]
              m2 == IF "refresh_token" \in DOMAIN x.body
                    THEN [m1 EXCEPT !.refresh_token = x.body.refresh_token]
                    ELSE m1
          IN IF "expires_in" \notin DOMAIN x.body THEN {Raise(x.st)}
             ELSE LET m3 == [m2 EXCEPT !.expires_in = x.body.expires_in,
                                       !.created_at = t]
                  IN {IF w.out = "raise" THEN w
                      ELSE Ret(Refreshed(w, k.file, x.body, m3))
                      : w \in write_token_file(x.st, m3)}
     : x \in refresh_oauth_token(k, "oauth-setup refresh",
                                 is_token_expired(k.file, t),
                                 k.file.refresh_token)}

\* ZohoEmail.__init__ with auth_method oauth2; the result carries the api_mode
construct(k, t, api_mode_, requests) ==
  UNION
    {IF a.out = "raise" THEN {[st |-> a, mode |-> "none"]}
     ELSE CASE api_mode_ = "auto" ->
                 IF requests
                 THEN {[st |-> Ret([a EXCEPT !.rest = a.file]), mode |-> "rest"]}
                 ELSE {[st |-> Ret(a), mode |-> "imap"]}
            [] api_mode_ = "rest" ->
                 IF requests
                 THEN {[st |-> Ret([a EXCEPT !.rest = a.file]), mode |-> "rest"]}
                 ELSE {[st |-> Raise(a), mode |-> "none"]}
            [] api_mode_ = "imap" -> {[st |-> Ret(a), mode |-> "imap"]}
     : a \in setup_oauth2(k, t)}

\* the IMAP half of a facade call, seen from the credentials: connect_imap
\* refreshes if expired, then AUTHENTICATE succeeds or fails
imap_half_oauth2(k, t, self_) ==
  UNION {IF r.out = "raise" THEN {[st |-> r, self |-> self_]}
         ELSE {[st |-> Ret(r), self |-> self_], [st |-> Raise(r), self |-> self_]}
         : r \in ensure_fresh(k, t, "connect_imap")}

get_unread_count_oauth2_downgrades(k, t, self_) ==
  IF self_.api_mode = "rest"
  THEN UNION {IF m.out = "ret" THEN {[st |-> m, self |-> self_]}
              ELSE imap_half_oauth2(Run(m), t,
                                    [self_ EXCEPT !.api_mode = "imap"])
              : m \in make_request_auth(k, t)}
  ELSE imap_half_oauth2(k, t, self_)

\* get_unread_count of an OAuth2 session whose REST client has the account
\* id cached, seen from the credentials; self_ is the object's api_mode and
\* auth_method.  In api_mode rest: the messages request of list_messages,
\* and the IMAP half when it raises
get_unread_count_oauth2(k, t, self_) ==
  IF self_.api_mode = "rest"
  THEN UNION {IF m.out = "ret" THEN {[st |-> m, self |-> self_]}
              ELSE imap_half_oauth2(Run(m), t, self_)
              : m \in make_request_auth(k, t)}
  ELSE imap_half_oauth2(k, t, self_)

TokensIdle ==
  /\ now = 0
  /\ token_file = NoTokens /\ oauth_tokens = NoTokens /\ rest_tokens = NoTokens
  /\ authsrv = [rt |-> 0, issued |-> 0]
  /\ session = "none"
  /\ tlast = NoTokenCall
  /\ auth_method = "none"

ExpiryIdle ==
  /\ token_data = NoTokens
  /\ answer = [asked |-> FALSE, at |-> 0, value |-> FALSE]

-----------------------------------------------------------------------------
(* ZohoEmail.__init__ as a function of its arguments and environment.      *)

AuthMethods == {"auto", "password", "oauth2", "other"}
ApiModes == {"auto", "rest", "imap", "other"}

\* the token file: absent, not JSON, without a required field, or complete
\* with an access token that is fresh or expired
TokenFiles == {"absent", "corrupt", "incomplete", "fresh", "expired"}

Envs ==
  [auth_method : AuthMethods, api_mode : ApiModes, file : TokenFiles,
   file_email : BOOLEAN,      \* the token file has an 'email' entry
   EMAIL : BOOLEAN,           \* ZOHO_EMAIL is set
   PASSWORD : BOOLEAN,        \* ZOHO_PASSWORD is set
   requests : BOOLEAN]        \* has_requests_library()

\* the object under construction
NoObject ==
  [out |-> "none", error |-> "", auth_method |-> "none", api_mode |-> "none",
   rest_client |-> FALSE,
   net |-> FALSE,                \* a network call has been made
   rest_init_failed |-> FALSE]   \* ZohoRestAPIClient(...) raised

Fail(o, error) == [o EXCEPT !.out = "raise", !.error = error]

resolve_auth_password_first(o, env) ==
  IF env.auth_method = "auto"
  THEN IF env.EMAIL /\ env.PASSWORD THEN [o EXCEPT !.auth_method = "password"]
       ELSE IF env.file # "absent" THEN [o EXCEPT !.auth_method = "oauth2"]
       ELSE Fail([o EXCEPT !.auth_method = "auto"], "no_credentials")
  ELSE [o EXCEPT !.auth_method = env.auth_method]

\* self.auth_method = auth_method;  if auth_method == 'auto': ...
resolve_auth(o, env) ==
  IF env.auth_method = "auto"
  THEN IF env.file # "absent" THEN [o EXCEPT !.auth_method = "oauth2"]
       ELSE IF env.EMAIL /\ env.PASSWORD THEN [o EXCEPT !.auth_method = "password"]
       ELSE Fail([o EXCEPT !.auth_method = "auto"], "no_credentials")
  ELSE [o EXCEPT !.auth_method = env.auth_method]

\* _setup_oauth2 on the token file as it is found
init_setup_oauth2(o, env) ==
  CASE env.file = "absent" -> {Fail(o, "token_file_not_found")}
    [] env.file \in {"corrupt", "incomplete"} -> {Fail(o, "setup_oauth2_failed")}
    [] OTHER ->
         LET email(p) == IF env.file_email \/ env.EMAIL THEN p
                         ELSE Fail(p, "setup_oauth2_failed")
         IN IF env.file = "expired"
            THEN {email([o EXCEPT !.net = TRUE]),
                  Fail([o EXCEPT !.net = TRUE], "setup_oauth2_failed")}
            ELSE {email(o)}

\* _setup_password
init_setup_password(o, env) ==
  IF ~env.EMAIL \/ ~env.PASSWORD THEN Fail(o, "password_not_set") ELSE o

\* "# Setup authentication"
setup_auth(o, env) ==
  CASE o.auth_method = "oauth2" -> init_setup_oauth2(o, env)
    [] o.auth_method = "password" -> {init_setup_password(o, env)}
    [] OTHER -> {Fail(o, "unknown_auth_method")}

\* ZohoRestAPIClient(self.token_file): load_oauth_tokens and import requests
\* succeed, or one of them raises
rest_client_init(o) ==
  {[o EXCEPT !.rest_client = TRUE], [o EXCEPT !.rest_init_failed = TRUE]}

rest_client_auto_strict(o, env) ==
  IF o.auth_method = "oauth2" /\ env.requests
  THEN {IF c.rest_init_failed THEN Fail(c, "rest_client_failed")
        ELSE [c EXCEPT !.out = "ok", !.api_mode = "rest"]
        : c \in rest_client_init(o)}
  ELSE {[o EXCEPT !.out = "ok", !.api_mode = "imap"]}

\* api_mode == 'auto': REST if OAuth2 and requests, IMAP if the client raises
rest_client_auto(o, env) ==
  IF o.auth_method = "oauth2" /\ env.requests
  THEN {IF c.rest_init_failed THEN [c EXCEPT !.out = "ok", !.api_mode = "imap"]
        ELSE [c EXCEPT !.out = "ok", !.api_mode = "rest"]
        : c \in rest_client_init(o)}
  ELSE {[o EXCEPT !.out = "ok", !.api_mode = "imap"]}

resolve_api_mode_any_auth(o, env) ==
  CASE env.api_mode = "auto" -> rest_client_auto(o, env)
    [] env.api_mode = "rest" ->
         {IF c.rest_init_failed THEN Fail(c, "rest_client_failed")
          ELSE [c EXCEPT !.out = "ok", !.api_mode = "rest"]
          : c \in rest_client_init(o)}
    [] env.api_mode = "imap" -> {[o EXCEPT !.out = "ok", !.api_mode = "imap"]}
    [] OTHER -> {Fail(o, "unknown_api_mode")}

\* "# Determine API mode (REST vs IMAP/SMTP)"
resolve_api_mode(o, env) ==
  CASE env.api_mode = "auto" -> rest_client_auto(o, env)
    [] env.api_mode = "rest" ->
         IF o.auth_method # "oauth2" THEN {Fail(o, "rest_requires_oauth2")}
         ELSE IF ~env.requests THEN {Fail(o, "rest_requires_requests")}
         ELSE {IF c.rest_init_failed THEN Fail(c, "rest_client_failed")
               ELSE [c EXCEPT !.out = "ok", !.api_mode = "rest"]
               : c \in rest_client_init([o EXCEPT !.api_mode = "rest"])}
    [] env.api_mode = "imap" -> {[o EXCEPT !.out = "ok", !.api_mode = "imap"]}
    [] OTHER -> {Fail(o, "unknown_api_mode")}

\* ZohoEmail.__init__
zoho_email_init(env) ==
  LET a == resolve_auth(NoObject, env) IN
  IF a.out = "raise" THEN {a}
  ELSE UNION {IF b.out = "raise" THEN {b} ELSE resolve_api_mode(b, env)
              : b \in setup_auth(a, env)}

\* the doctor command has not run
NoReport ==
  [ran |-> FALSE, exit |-> 0,
   zoho_email_env_set |-> FALSE, zoho_password_env_set |-> FALSE,
   token_file_exists |-> FALSE, requests_installed |-> FALSE,
   token_file_readable |-> "unset",               \* "unset" | "yes" | "no"
   oauth_token_expired_or_expiring |-> "unset",   \* "unset" | "None" | "yes" | "no"
   imap_reachable |-> FALSE, smtp_reachable |-> FALSE, rest_reachable |-> FALSE,
   constructed |-> FALSE,    \* ZohoEmail(...) was called
   logins |-> 0,             \* IMAP / SMTP logins attempted
   refreshes |-> 0,          \* token-endpoint requests made
   writes |-> 0,             \* token file writes
   connects |-> 0]           \* sockets opened and GET requests sent, no login

\* load_oauth_tokens and the tokens.get(...) / is_token_expired lines after it
doctor_read_tokens(d, env) ==
  CASE env.file = "corrupt" -> [out |-> "raise", d |-> d]
    [] env.file = "incomplete" ->
         [out |-> "ok",
          d |-> [d EXCEPT !.token_file_readable = "yes",
                          !.oauth_token_expired_or_expiring = "None"]]
    [] OTHER ->
         [out |-> "ok",
          d |-> [d EXCEPT !.token_file_readable = "yes",
                          !.oauth_token_expired_or_expiring =
                             IF env.file = "expired" THEN "yes" ELSE "no"]]

\* can_connect(host, port) and http_ok(url): True or False, never raises
can_connect(d) ==
  {[ok |-> b, d |-> [d EXCEPT !.connects = @ + 1]] : b \in BOOLEAN}

\* "# Basic network reachability checks (no login)" and the REST check
doctor_reachability(d) ==
  UNION {UNION {{[r.d EXCEPT !.imap_reachable = i.ok, !.smtp_reachable = s.ok,
                             !.rest_reachable = r.ok]
                 : r \in can_connect(s.d)}
                : s \in can_connect(i.d)}
         : i \in can_connect(d)}

doctor_load_unguarded(env) ==
  LET d0 == [NoReport EXCEPT !.ran = TRUE,
                             !.zoho_email_env_set = env.EMAIL,
                             !.zoho_password_env_set = env.PASSWORD,
                             !.token_file_exists = (env.file # "absent"),
                             !.requests_installed = env.requests]
      t == doctor_read_tokens(d0, env)
  IN IF d0.token_file_exists /\ t.out = "raise"
     THEN {[t.d EXCEPT !.exit = 1]}
     ELSE doctor_reachability(IF d0.token_file_exists THEN t.d ELSE d0)

\* the doctor command: report, token file status (try / except), reachability,
\* print, sys.exit(0)
doctor(env) ==
  LET d0 == [NoReport EXCEPT !.ran = TRUE,
                             !.zoho_email_env_set = env.EMAIL,
                             !.zoho_password_env_set = env.PASSWORD,
                             !.token_file_exists = (env.file # "absent"),
                             !.requests_installed = env.requests]
      t == doctor_read_tokens(d0, env)
      d1 == IF ~d0.token_file_exists THEN d0
            ELSE IF t.out = "raise"
            THEN [t.d EXCEPT !.token_file_readable = "no"]
            ELSE t.d
  IN {[d EXCEPT !.exit = 0] : d \in doctor_reachability(d1)}

InitIdle ==
  /\ environ = [auth_method |-> "auto", api_mode |-> "auto", file |-> "absent",
                file_email |-> FALSE, EMAIL |-> FALSE, PASSWORD |-> FALSE,
                requests |-> FALSE]
  /\ obj = NoObject
  /\ report = NoReport

-----------------------------------------------------------------------------
(* The two translations of an IMAP search query into a REST searchKey.  A  *)
(* query is a text, modelled as the sequence of its pieces: a keyword, a   *)
(* blank, a double quote, a word.                                          *)

MaxQueryLen == 5   \* pieces in the longest query tried

Pieces == {"SUBJECT", "FROM", "SINCE", "ALL", " ", "quote", "word"}

QueryTexts == SeqsUpTo(Pieces, MaxQueryLen)

None == <<"None">>       \* search_query = None
Unset == <<"unset">>     \* the translation has not been made

\* the inline translation of search_emails
inline_search_query(query) ==
  IF query = <<"ALL">> THEN None
  ELSE IF /\ Len(query) >= 3 /\ SubSeq(query, 1, 3) = <<"SUBJECT", " ", "quote">>
          /\ query[Len(query)] = "quote"
  THEN <<"subject:">> \o SubSeq(query, 4, Len(query) - 1)      \* query[9:-1]
  ELSE IF /\ Len(query) >= 3 /\ SubSeq(query, 1, 3) = <<"FROM", " ", "quote">>
          /\ query[Len(query)] = "quote"
  THEN <<"sender:">> \o SubSeq(query, 4, Len(query) - 1)       \* query[6:-1]
  ELSE <<"entire:">> \o query

\* the last index e >= p - 1 such that every piece of q[p..e] is (inside) or
\* is not (~inside) in T: the end of a greedy run
RunEnd(q, p, T, inside) ==
  CHOOSE e \in (p - 1)..Len(q) :
    /\ \A j \in p..e : (q[j] \in T) = inside
    /\ e = Len(q) \/ ((q[e + 1] \in T) # inside)

\* str.strip(chars)
Strip(q, chars) ==
  LET a == RunEnd(q, 1, chars, TRUE) + 1
      keep == {j \in a..Len(q) : q[j] \notin chars}
      b == IF keep = {} THEN a - 1
           ELSE CHOOSE j \in keep : \A k \in keep : k <= j
  IN SubSeq(q, a, b)

\* the conversions dict, in its order: KEY\s+"([^"]+)" and KEY\s+(\S+)
Conversions ==
  <<[key |-> "SUBJECT", quoted |-> TRUE, out |-> "subject:"],
    [key |-> "SUBJECT", quoted |-> FALSE, out |-> "subject:"],
    [key |-> "FROM", quoted |-> TRUE, out |-> "from:"],
    [key |-> "FROM", quoted |-> FALSE, out |-> "from:"],
    [key |-> "TO", quoted |-> TRUE, out |-> "to:"],
    [key |-> "TO", quoted |-> FALSE, out |-> "to:"],
    [key |-> "BODY", quoted |-> TRUE, out |-> "entire:"],
    [key |-> "BODY", quoted |-> FALSE, out |-> "entire:"],
    [key |-> "TEXT", quoted |-> TRUE, out |-> "entire:"],
    [key |-> "TEXT", quoted |-> FALSE, out |-> "entire:"]>>

NoMatch == [end |-> 0, group |-> <<>>]

\* the match of a conversion pattern that starts at piece i, if there is one
Match(q, i, c) ==
  IF q[i] # c.key THEN NoMatch
  ELSE LET p == RunEnd(q, i + 1, {" "}, TRUE) + 1 IN    \* after \s+
       IF p = i + 1 \/ p > Len(q) THEN NoMatch
       ELSE IF c.quoted
       THEN IF q[p] # "quote" THEN NoMatch
            ELSE LET e == RunEnd(q, p + 1, {"quote"}, FALSE) + 1 IN
                 IF e = p + 1 \/ e > Len(q) THEN NoMatch
                 ELSE [end |-> e, group |-> SubSeq(q, p + 1, e - 1)]
       ELSE LET e == RunEnd(q, p, {" "}, FALSE) IN
            [end |-> e, group |-> SubSeq(q, p, e)]

\* re.sub(pattern, replacement, query) from piece i on
RECURSIVE Sub(_, _, _)
Sub(q, i, c) ==
  IF i > Len(q) THEN <<>>
  ELSE LET m == Match(q, i, c) IN
       IF m.end = 0 THEN <<q[i]>> \o Sub(q, i + 1, c)
       ELSE <<c.out>> \o m.group \o Sub(q, m.end + 1, c)

\* for pattern, replacement in conversions.items(): query = re.sub(...)
RECURSIVE SubAll(_, _)
SubAll(q, n) ==
  IF n > Len(Conversions) THEN q ELSE SubAll(Sub(q, 1, Conversions[n]), n + 1)

\* the end of the match of \s*SINCE\s+\S+ that starts at piece i, or 0
MatchSince(q, i) ==
  LET a == RunEnd(q, i, {" "}, TRUE) + 1 IN             \* after \s*
  IF a > Len(q) \/ q[a] # "SINCE" THEN 0
  ELSE LET p == RunEnd(q, a + 1, {" "}, TRUE) + 1 IN    \* after \s+
       IF p = a + 1 \/ p > Len(q) THEN 0
       ELSE RunEnd(q, p, {" "}, FALSE)

\* re.sub(r'\s*SINCE\s+\S+', '', query) from piece i on
RECURSIVE RemoveSince(_, _)
RemoveSince(q, i) ==
  IF i > Len(q) THEN <<>>
  ELSE LET e == MatchSince(q, i) IN
       IF e = 0 THEN <<q[i]>> \o RemoveSince(q, i + 1)
       ELSE RemoveSince(q, e + 1)

\* ZohoEmail._convert_imap_search_to_rest
convert_imap_search_to_rest(imap_query_) ==
  LET query == Strip(imap_query_, {"(", ")", " "})
  IN Strip(RemoveSince(SubAll(query, 1), 1), {" "})

TranslateIdle ==
  /\ imap_query = <<>>
  /\ search_query = Unset
  /\ rest_query = Unset

-----------------------------------------------------------------------------
(* The command line of empty-spam and empty-trash. *)

MaxArgs == 2          \* flags on the longest command line tried
DefaultLimit == 100   \* bulk_action(..., limit=100, ...)

Flags == {"--dry-run", "--execute", "--verbose"}

\* the command lines: flags in any order, repeated or not
Argvs == SeqsUpTo(Flags, MaxArgs)

\* sys.argv = [arg for arg in sys.argv if arg not in ('--verbose', '-v')]
strip_verbose(argv_) ==
  LET keep(arg) == arg \notin {"--verbose", "-v"} IN SelectSeq(argv_, keep)

empty_dry_run_unless_execute(argv_) ==
  LET execute == "--execute" \in Range(argv_) IN ~execute

\* execute = '--execute' in sys.argv
\* dry_run = ('--dry-run' in sys.argv) or (not execute)
empty_dry_run(argv_) ==
  LET execute == "--execute" \in Range(argv_)
  IN ("--dry-run" \in Range(argv_)) \/ ~execute

CliIdle == argv = <<>>

-----------------------------------------------------------------------------
(* The technews skill: run_technews and the parallel fetch_multiple.  A    *)
(* story's url is its number in the TechMeme list, and a page's content is *)
(* written as the url it was fetched from.                                 *)

MaxStories == 3    \* stories in the longest TechMeme list tried
MaxWorkers == 5    \* fetch_multiple(urls, max_workers=5)

Absent == 0        \* the key is not in the dict
EmptyText == -1    \* ""

\* fetch_techmeme(num_stories): n stories, each with its own url
Stories(n) == [i \in 1..n |-> [url |-> i, content |-> Absent, summary |-> Absent]]

\* fetch_article(url): the result dict; it has no "summary" key
fetch_article(url, success) ==
  [url |-> url, success |-> success,
   content |-> IF success THEN url ELSE EmptyText, summary |-> Absent]

\* dict.get(key, "")
dict_get(value) == IF value = Absent THEN EmptyText ELSE value

\* the fetches a worker of the pool is running: the first max_workers
\* submitted ones that have not completed
Running == {i \in futures : Cardinality({j \in futures : j < i}) < MaxWorkers}

\* for story, article in zip(stories, articles): if article.get("success"): ...
merge(stories_, articles_) ==
  [i \in 1..Len(stories_) |->
     IF i <= Len(articles_) /\ articles_[i].success
     THEN [stories_[i] EXCEPT !.content = dict_get(articles_[i].content),
                              !.summary = dict_get(articles_[i].summary)]
     ELSE stories_[i]]

NewsIdle ==
  /\ stories = <<>>
  /\ futures = {}
  /\ articles = <<>>
  /\ news_pc = "idle"

-----------------------------------------------------------------------------
(* The session: one action per facade method. *)

NoCall ==
  [op |-> "none", query |-> "", action |-> "", limit |-> 0, dry |-> FALSE,
   req |-> <<>>, target |-> TRUE, nmatch |-> 0, before |-> <<>>,
   out |-> "ret", res |-> "none", val |-> <<>>, success |-> <<>>,
   failed |-> <<>>, total |-> 0, toproc |-> 0, preview |-> 0,
   restFail |-> FALSE, restNon200 |-> FALSE, imapFail |-> FALSE,
   imapAttempts |-> 0, restReqs |-> 0,
   mut |-> {}, imapIds |-> {}, restIds |-> {}, expunges |-> <<>>]

\* the call as the caller sees it, r being the call state it ended in
Call(op, query, action, limit, dry, req, r) ==
  [op |-> op, query |-> query, action |-> action, limit |-> limit, dry |-> dry,
   req |-> req, target |-> TRUE,       \* move_emails: target_folder given
   nmatch |-> NMatch(mbox, Since(query)), before |-> mbox,
   out |-> r.out, res |-> IF r.out = "ret" THEN r.res ELSE "none",
   val |-> r.val, success |-> r.success, failed |-> r.failed,
   total |-> r.total, toproc |-> r.toproc, preview |-> r.preview,
   restFail |-> r.restFail, restNon200 |-> r.restNon200,
   imapFail |-> r.imapFail,
   imapAttempts |-> r.imapAttempts, restReqs |-> r.restReqs,
   mut |-> r.mut, imapIds |-> r.imapIds, restIds |-> r.restIds,
   expunges |-> r.expunges]

Commit(r, call) ==
  /\ mbox' = r.mb
  /\ account_id' = r.acct
  /\ imap' = r.imap
  /\ last' = call
  /\ UNCHANGED <<api_mode, tokenVars, expiryVars, initVars, toolVars>>

Begin == Start(mbox, account_id)

\* the caller is between calls: the previous result has been reported
Idle == last.op = "none"

\* the caller holds the result of a search and may act on its ids
Searched == last.op = "search" /\ last.out = "ret"

\* the ids a caller holds: those the search it has just made returned
Held == IF Searched THEN Range(last.val) ELSE {}

\* the folder at the start: nothing flagged \Deleted; either every message
\* is inside the recency window or the newsletter with uid 2 is older
Mailboxes ==
  {mb \in [Uids -> [uid : Uids, seen : BOOLEAN, del : {FALSE}, old : BOOLEAN]] :
     /\ \A i \in Uids : mb[i].uid = i
     /\ \A i \in Uids : mb[i].old => i = 2}

Init ==
  /\ mbox \in Mailboxes
  /\ api_mode \in {"rest", "imap"}
  /\ account_id = FALSE
  /\ imap = "none"
  /\ last = NoCall
  /\ TokensIdle
  /\ ExpiryIdle
  /\ InitIdle
  /\ TranslateIdle
  /\ CliIdle
  /\ NewsIdle

SearchEmails ==
  /\ Idle
  /\ \E query \in Queries, limit \in Limits, search_days \in SearchDays :
    \E r \in search_emails(Begin, api_mode, query, limit, search_days) :
      Commit(r, Call("search", query, "", limit, FALSE, <<>>, r))

GetEmail ==
  /\ Idle \/ Searched
  /\ \E email_id \in Held \cup {0} :
    \E r \in get_email(Begin, email_id) :
      Commit(r, Call("get", "", "", 0, FALSE, <<email_id>>, r))

GetAttachments ==
  /\ Idle \/ Searched
  /\ \E email_id \in Held \cup {0} :
    \E r \in get_attachments(Begin, email_id) :
      Commit(r, Call("get_attachments", "", "", 0, FALSE, <<email_id>>, r))

DownloadAttachment ==
  /\ Idle \/ Searched
  /\ \E email_id \in Held \cup {0}, found \in BOOLEAN :
    \E r \in download_attachment(Begin, email_id, found) :
      Commit(r, Call("download_attachment", "", "", 0, FALSE, <<email_id>>, r))

GetUnreadCount ==
  /\ Idle
  /\ \E r \in get_unread_count(Begin, api_mode) :
    Commit(r, Call("unread", "", "", 0, FALSE, <<>>, r))

SendEmail ==
  /\ Idle
  /\ \E r \in send_email(Begin, api_mode) :
    Commit(r, Call("send", "", "", 0, FALSE, <<>>, r))

MarkAsRead ==
  /\ Idle \/ Searched
  /\ \E email_ids \in SeqsUpTo(Held, MaxIds) :
    \E r \in mark_as_read(Begin, api_mode, email_ids) :
      Commit(r, Call("mark_as_read", "", "", 0, FALSE, email_ids, r))

MarkAsUnread ==
  /\ Idle \/ Searched
  /\ \E email_ids \in SeqsUpTo(Held, MaxIds) :
    \E r \in mark_as_unread(Begin, api_mode, email_ids) :
      Commit(r, Call("mark_as_unread", "", "", 0, FALSE, email_ids, r))

DeleteEmails ==
  /\ Idle \/ Searched
  /\ \E email_ids \in SeqsUpTo(Held, MaxIds) :
    \E r \in delete_emails(Begin, api_mode, email_ids) :
      Commit(r, Call("delete_emails", "", "", 0, FALSE, email_ids, r))

MoveEmails ==
  /\ Idle \/ Searched
  /\ \E email_ids \in SeqsUpTo(Held, MaxIds), target_folder \in BOOLEAN :
    \E r \in move_emails(Begin, api_mode, email_ids, target_folder) :
      Commit(r, [Call("move_emails", "", "", 0, FALSE, email_ids, r)
                   EXCEPT !.target = target_folder])

BulkAction ==
  /\ Idle
  /\ \E query \in Queries, action \in ActionArgs, limit \in Limits,
        dry_run \in BOOLEAN, search_days \in SearchDays :
    \E r \in bulk_action(Begin, api_mode, query, action, limit, dry_run,
                         search_days) :
      Commit(r, Call("bulk", query, action, limit, dry_run, r.val, r))

\* the caller prints the result (print(json.dumps(result))) and drops it
Report ==
  /\ ~Idle
  /\ last' = NoCall
  /\ UNCHANGED <<mbox, api_mode, account_id, imap, tokenVars, expiryVars, initVars, toolVars>>

Next ==
  \/ Report
  \/ SearchEmails
  \/ GetEmail
  \/ GetAttachments
  \/ DownloadAttachment
  \/ GetUnreadCount
  \/ SendEmail
  \/ MarkAsRead
  \/ MarkAsUnread
  \/ DeleteEmails
  \/ MoveEmails
  \/ BulkAction

vars == <<facadeVars, tokenVars, expiryVars, initVars, toolVars>>

Spec == Init /\ [][Next]_vars

-----------------------------------------------------------------------------
(* The token lifecycle: sessions over one token file. *)

\* the previous operation's outcome has been reported
TokenIdle == tlast.op = "none"

TokenBegin == TokenStart(token_file, oauth_tokens, rest_tokens, authsrv)

\* the operation ends in call state k; the ZohoEmail object lives on or not
TokenCommitSelf(k, op, alive, mode, auth_method_) ==
  /\ auth_method' = IF alive THEN auth_method_ ELSE "none"
  /\ token_file' = k.file
  /\ authsrv' = k.auth
  /\ oauth_tokens' = IF alive THEN k.mem ELSE NoTokens
  /\ rest_tokens' = IF alive /\ mode = "rest" THEN k.rest ELSE NoTokens
  /\ session' = IF alive THEN "ready" ELSE "none"
  /\ api_mode' = IF alive THEN mode ELSE "none"
  /\ tlast' = [op |-> op, out |-> k.out, at |-> now,
               events |-> k.events, reqs |-> k.reqs, refreshes |-> k.refreshes,
               before |-> [file |-> token_file, mem |-> oauth_tokens,
                           rest |-> rest_tokens]]
  /\ UNCHANGED <<now, mbox, account_id, imap, last, expiryVars, initVars, toolVars>>

\* an operation of a session constructed with auth_method='oauth2'
TokenCommit(k, op, alive, mode) == TokenCommitSelf(k, op, alive, mode, "oauth2")

\* the token file oauth-setup.py wrote at time 0
InitToken ==
  /\ mbox = <<>> /\ api_mode = "none" /\ account_id = FALSE /\ imap = "none"
  /\ last = NoCall
  /\ ExpiryIdle
  /\ InitIdle
  /\ TranslateIdle
  /\ CliIdle
  /\ NewsIdle
  /\ now = 0
  /\ token_file \in {[access_token |-> 1, refresh_token |-> 1,
                      expires_in |-> e, created_at |-> 0, client_id |-> 1]
                     : e \in ExpiresIns}
  /\ oauth_tokens = NoTokens /\ rest_tokens = NoTokens
  /\ authsrv = [rt |-> 1, issued |-> 1]
  /\ session = "none"
  /\ tlast = NoTokenCall
  /\ auth_method = "none"

\* ZohoEmail(auth_method='oauth2', api_mode=...)
Construct ==
  /\ TokenIdle /\ session = "none"
  /\ \E api_mode_ \in {"auto", "rest", "imap"}, requests \in BOOLEAN :
    \E c \in construct(TokenBegin, now, api_mode_, requests) :
      TokenCommit(c.st, "construct", c.st.out = "ret", c.mode)

\* the OAuth2 branch of connect_imap: refresh if expired, then AUTHENTICATE
ConnectImap ==
  /\ TokenIdle /\ session = "ready"
  /\ \E r \in ensure_fresh(TokenBegin, now, "connect_imap") :
    \E k \in IF r.out = "raise" THEN {r} ELSE {Ret(r), Raise(r)} :
      TokenCommit(k, "connect_imap", TRUE, api_mode)

\* the OAuth2 branch of _smtp_login: refresh if expired, then AUTH XOAUTH2
SmtpLogin ==
  /\ TokenIdle /\ session = "ready"
  /\ \E r \in ensure_fresh(TokenBegin, now, "_smtp_login") :
    \E k \in IF r.out = "raise" THEN {r} ELSE {Ret(r), Raise(r)} :
      TokenCommit(k, "_smtp_login", TRUE, api_mode)

\* one _make_request call of the REST client
RestRequest ==
  /\ TokenIdle /\ session = "ready" /\ api_mode = "rest"
  /\ \E k \in make_request_auth(TokenBegin, now) :
    TokenCommit(k, "_make_request", TRUE, api_mode)

\* zoho.get_unread_count(); of its REST requests the log keeps the last one
UnreadCount ==
  /\ TokenIdle /\ session = "ready"
  /\ \E c \in get_unread_count_oauth2(TokenBegin, now,
              [api_mode |-> api_mode, auth_method |-> auth_method]) :
       TokenCommitSelf([c.st EXCEPT !.reqs = LastN(@, 1)], "get_unread_count",
                       TRUE, c.self.api_mode, c.self.auth_method)

\* the oauth-login command: construct, refresh_token(), exit
OauthLogin ==
  /\ TokenIdle /\ session = "none"
  /\ \E requests \in BOOLEAN :
    \E c \in construct(TokenBegin, now, "auto", requests) :
      \E k \in IF c.st.out = "raise" THEN {c.st}
               ELSE {IF r.out = "raise" THEN r ELSE Ret(r)
                     : r \in refresh_token(Run(c.st), now, "oauth-login")} :
        TokenCommit(k, "oauth-login", FALSE, "none")

\* python3 oauth-setup.py refresh
RefreshTokenCmd ==
  /\ TokenIdle /\ session = "none"
  /\ \E k \in refresh_token_cmd(TokenBegin, now) :
    TokenCommit(k, "oauth-setup refresh", FALSE, "none")

\* the process ends: the in-memory copies are gone, the file stays
Exit ==
  /\ TokenIdle /\ session = "ready"
  /\ session' = "none"
  /\ api_mode' = "none"
  /\ auth_method' = "none"
  /\ oauth_tokens' = NoTokens /\ rest_tokens' = NoTokens
  /\ UNCHANGED <<now, token_file, authsrv, tlast, mbox, account_id, imap, last,
                 expiryVars, initVars, toolVars>>

\* the clock steps up to the margin and seconds through it
LongStep == DefaultExpiresIn - ExpiryMargin - 1
Ticks(n) == (n \div LongStep) + (n % LongStep)

Tick ==
  /\ TokenIdle /\ Ticks(now) < MaxTicks
  /\ \E d \in {1, LongStep} : now' = now + d
  /\ UNCHANGED <<facadeVars, token_file, oauth_tokens, rest_tokens, authsrv,
                 session, tlast, auth_method, expiryVars, initVars, toolVars>>

\* the outcome is logged (self.log, print to stderr) and dropped
TokenReport ==
  /\ ~TokenIdle
  /\ tlast' = NoTokenCall
  /\ UNCHANGED <<facadeVars, now, token_file, oauth_tokens, rest_tokens,
                 authsrv, session, auth_method, expiryVars, initVars, toolVars>>

NextToken ==
  \/ TokenReport
  \/ Construct
  \/ ConnectImap
  \/ SmtpLogin
  \/ RestRequest
  \/ UnreadCount
  \/ OauthLogin
  \/ RefreshTokenCmd
  \/ Exit
  \/ Tick

SpecToken == InitToken /\ [][NextToken]_vars

-----------------------------------------------------------------------------
(* is_token_expired as a function of the record and the clock. *)

\* token records with and without the two fields is_token_expired reads
TokenData ==
  {[access_token |-> 1, refresh_token |-> 1]} \cup
  {[access_token |-> 1, refresh_token |-> 1, created_at |-> c]
   : c \in 0..1} \cup
  {[access_token |-> 1, refresh_token |-> 1, expires_in |-> e]
   : e \in ExpiresIns} \cup
  {[access_token |-> 1, refresh_token |-> 1, expires_in |-> e, created_at |-> c]
   : e \in ExpiresIns, c \in 0..1}

InitExpiry ==
  /\ mbox = <<>> /\ api_mode = "none" /\ account_id = FALSE /\ imap = "none"
  /\ last = NoCall
  /\ token_file = NoTokens /\ oauth_tokens = NoTokens /\ rest_tokens = NoTokens
  /\ authsrv = [rt |-> 0, issued |-> 0]
  /\ session = "none"
  /\ tlast = NoTokenCall
  /\ auth_method = "none"
  /\ now = 0
  /\ token_data \in TokenData
  /\ answer = [asked |-> FALSE, at |-> 0, value |-> FALSE]
  /\ InitIdle
  /\ TranslateIdle
  /\ CliIdle
  /\ NewsIdle

IsTokenExpired ==
  /\ answer' = [asked |-> TRUE, at |-> now,
                value |-> is_token_expired(token_data, now)]
  /\ UNCHANGED <<facadeVars, tokenVars, token_data, initVars, toolVars>>

NextExpiry ==
  \/ IsTokenExpired
  \/ Tick

SpecExpiry == InitExpiry /\ [][NextExpiry]_vars

-----------------------------------------------------------------------------
(* Construction, followed by facade calls of the session it produced. *)

InitConstruction ==
  /\ mbox = <<>> /\ api_mode = "none" /\ account_id = FALSE /\ imap = "none"
  /\ last = NoCall
  /\ TokensIdle
  /\ ExpiryIdle
  /\ environ \in Envs
  /\ obj = NoObject
  /\ report = NoReport
  /\ TranslateIdle
  /\ CliIdle
  /\ NewsIdle

\* zoho = ZohoEmail(auth_method=..., api_mode=...)
NewZohoEmail ==
  /\ obj.out = "none" /\ ~report.ran
  /\ \E o \in zoho_email_init(environ) :
       /\ obj' = o
       /\ session' = IF o.out = "ok" THEN "ready" ELSE "none"
       /\ api_mode' = IF o.out = "ok" THEN o.api_mode ELSE "none"
       /\ auth_method' = IF o.out = "ok" THEN o.auth_method ELSE "none"
  /\ UNCHANGED <<mbox, account_id, imap, last, now, token_file, oauth_tokens,
                 rest_tokens, authsrv, tlast, expiryVars, environ, report, toolVars>>

\* python3 zoho-email.py doctor: the process ends at sys.exit before any
\* session is constructed
Doctor ==
  /\ obj.out = "none" /\ ~report.ran
  /\ \E d \in doctor(environ) : report' = d
  /\ UNCHANGED <<facadeVars, tokenVars, expiryVars, environ, obj, toolVars>>

\* zoho.send_email(...)
SessionSend ==
  /\ session = "ready"
  /\ SendEmail

\* zoho.get_unread_count()
SessionUnread ==
  /\ session = "ready"
  /\ GetUnreadCount

NextConstruction ==
  \/ NewZohoEmail
  \/ Doctor
  \/ SessionSend
  \/ SessionUnread
  \/ Report

SpecConstruction == InitConstruction /\ [][NextConstruction]_vars

-----------------------------------------------------------------------------
(* Properties of the facade and of bulk_action. *)

Count(seq, x) == Cardinality({i \in 1..Len(seq) : seq[i] = x})

\* C1: a bulk_action with dry_run=True, in either api_mode and whatever
\* fails, issues no mutating transport operation (no REST updatemessage or
\* DELETE, no IMAP STORE, COPY or EXPUNGE, no read-write SELECT) and leaves
\* the read/unread/deleted state of every message as it was.
C1_DryRunIsPure ==
  (last.op = "bulk" /\ last.dry) => (last.mut = {} /\ mbox = last.before)

\* a dry run that fell back from REST to IMAP and previewed a message which
\* the action would have changed
C1_Witness ==
  /\ last.op = "bulk" /\ last.dry /\ last.res = "dry"
  /\ last.action = "delete" /\ last.toproc > 0
  /\ last.restFail /\ last.imapAttempts = 1

\* C2: an id is only passed to the transport whose search produced it: no
\* REST message id in an IMAP command, no IMAP sequence number in a REST
\* request.
C2_IdsStayOnTheirTransport ==
  /\ \A id \in last.imapIds : ~IsRestId(id)
  /\ \A id \in last.restIds : IsRestId(id)

\* C3 as stated: in a success/failed result for the id list S, every id of S
\* is in exactly one of the two lists and no other id is in either.
C3_PartitionOfIdSet ==
  last.res = "partition" =>
    /\ Range(last.success) \cup Range(last.failed) = Range(last.req)
    /\ Range(last.success) \cap Range(last.failed) = {}

\* C3 amended: every occurrence of an id in S is recorded exactly once:
\* success followed by failed is a rearrangement of S (a partition of S when
\* S has no repeated id, as is the case for the ids a search returns).
C3_EveryOccurrenceRecordedOnce ==
  last.res = "partition" =>
    \A id \in Range(last.req) \cup Range(last.success) \cup Range(last.failed) :
      Count(last.success, id) + Count(last.failed, id) = Count(last.req, id)

\* a per-id method that fell back to IMAP and had one id succeed, one fail
C3_Witness ==
  /\ last.op \in {"mark_as_read", "mark_as_unread", "delete_emails", "move_emails"}
  /\ last.res = "partition"
  /\ Len(last.req) = 2 /\ Len(last.success) = 1 /\ Len(last.failed) = 1

\* C4: a bulk action (mark-read, mark-unread or delete) that is not a dry
\* run and whose search finds nothing returns {success: [], failed: []},
\* issues no operation for the action and does not raise.
C4_EmptyMatchReturnsEmpty ==
  (/\ last.op = "bulk" /\ ~last.dry /\ last.action \in Actions
   /\ last.nmatch = 0 /\ ~last.restFail /\ ~last.imapFail)
  => (/\ last.out = "ret" /\ last.res = "partition"
      /\ last.success = <<>> /\ last.failed = <<>> /\ last.mut \subseteq {"imap_select_rw"})

\* C5: in api_mode rest, a REST attempt that fails at the transport level is
\* followed by exactly one IMAP/SMTP attempt before the call ends: never
\* none, never more than one.  (bulk_action's IMAP half opens one connection
\* to search and another to act, so for it only "never none" is stated.)
C5_ExactlyOneFallback ==
  (api_mode = "rest" /\ last.restFail) =>
    /\ last.op \in {"search", "unread", "send", "mark_as_read",
                    "mark_as_unread", "delete_emails", "move_emails"}
         => last.imapAttempts = 1
    /\ last.op = "bulk" => last.imapAttempts >= 1

C7_DryRunCounts ==
  (/\ last.op = "bulk" /\ last.dry /\ last.res = "dry"
   /\ last.limit >= 1 /\ ~last.restNon200
   /\ \A i \in 1..Len(last.before) : ~last.before[i].old) =>
    /\ last.total = last.nmatch
    /\ last.toproc = Min(last.total, last.limit)
    /\ last.preview <= PreviewMax

\* C8: a bulk action processes at most `limit` ids, for every limit >= 0.
C8_AtMostLimit ==
  (last.op = "bulk" /\ last.out = "ret") =>
    /\ last.res = "dry" => last.toproc <= last.limit
    /\ last.res = "partition" =>
         Len(last.success) + Len(last.failed) <= last.limit

-----------------------------------------------------------------------------
(* Properties of the token lifecycle. *)

\* C9 as stated: a token-endpoint request is made only when is_token_expired
\* holds for the record being refreshed, in every operation of a session
\* (construction, IMAP connect, SMTP login, REST request, oauth-login).
C9_RefreshOnlyWhenExpired ==
  \A e \in tlast.events :
    e.by \in {"_setup_oauth2", "connect_imap", "_smtp_login", "_make_request",
              "oauth-login"} => e.expired

\* C9 amended: every token-endpoint request other than the one the
\* oauth-login command makes on purpose is made only when is_token_expired
\* holds for the record being refreshed.
C9_RefreshOnlyWhenExpiredUnlessAsked ==
  \A e \in tlast.events :
    e.by \in {"_setup_oauth2", "connect_imap", "_smtp_login", "_make_request"}
      => e.expired

\* an IMAP connect that found the token expired, refreshed it and logged in
C9_Witness ==
  /\ tlast.op = "connect_imap" /\ tlast.out = "ret"
  /\ \E e \in tlast.events : e.by = "connect_imap" /\ e.expired

\* C10: for a record with created_at and expires_in, is_token_expired is true
\* exactly when now >= created_at + expires_in - 300; with expires_in = 3600
\* it is false at created_at + 3299 and true at created_at + 3300, at
\* created_at + 3301 and at every later time.
C10_ExpiredExactlyFromTheMargin ==
  (answer.asked /\ {"created_at", "expires_in"} \subseteq DOMAIN token_data) =>
    /\ answer.value <=>
         (answer.at >= token_data.created_at + token_data.expires_in - 300)
    /\ token_data.expires_in = 3600 =>
         /\ answer.at = token_data.created_at + 3299 => ~answer.value
         /\ answer.at = token_data.created_at + 3300 => answer.value
         /\ answer.at >= token_data.created_at + 3301 => answer.value

\* the call made at the second the answer flips
C10_Witness ==
  /\ answer.asked /\ answer.value
  /\ {"created_at", "expires_in"} \subseteq DOMAIN token_data
  /\ token_data.expires_in = 3600
  /\ answer.at = token_data.created_at + 3300

\* C11: when a request of a _make_request call is answered with HTTP 401, a
\* token-endpoint request is made in that call and the request that follows
\* carries another access token than the rejected one.
C11_RetryAfter401CarriesNewToken ==
  tlast.op = "_make_request" =>
    \A i \in 1..Len(tlast.reqs) :
      tlast.reqs[i].status = "401" =>
        /\ \E e \in tlast.events : e.by = "_make_request"
        /\ i < Len(tlast.reqs) => tlast.reqs[i + 1].token # tlast.reqs[i].token

\* C12: a _make_request call sends at most max_retries requests to the API,
\* the retries after 429, after 401 and after any other error counted
\* together, and ends: it returns a body or raises.
C12_AtMostMaxRetriesRequests ==
  tlast.op = "_make_request" =>
    /\ Len(tlast.reqs) <= MaxRetries
    /\ tlast.out \in {"ret", "raise"}
    /\ tlast.out = "ret" =>
         /\ Len(tlast.reqs) >= 1
         /\ tlast.reqs[Len(tlast.reqs)].status = "200"
         /\ \A i \in 1..(Len(tlast.reqs) - 1) : tlast.reqs[i].status # "200"

\* a call that used its whole budget on a 429, a 401 and another error
C12_Witness ==
  /\ tlast.op = "_make_request" /\ tlast.out = "raise"
  /\ Len(tlast.reqs) = MaxRetries
  /\ {tlast.reqs[i].status : i \in 1..Len(tlast.reqs)} = {"429", "401", "error"}

-----------------------------------------------------------------------------
(* Properties of construction. *)

\* C13: with auth_method='auto' the constructor resolves authentication from
\* three facts only: the token file exists -> oauth2 (whatever password
\* credentials there are); else ZOHO_EMAIL and ZOHO_PASSWORD both set ->
\* password; else construction fails with the no-credentials error.
C13_AutoAuthResolution ==
  (obj.out # "none" /\ environ.auth_method = "auto") =>
    IF environ.file # "absent" THEN obj.auth_method = "oauth2"
    ELSE IF environ.EMAIL /\ environ.PASSWORD
    THEN obj.auth_method = "password"
    ELSE obj.out = "raise" /\ obj.error = "no_credentials" /\ ~obj.net

\* a token file chosen although password credentials are there too
C13_Witness ==
  /\ environ.auth_method = "auto" /\ environ.file = "fresh"
  /\ environ.EMAIL /\ environ.PASSWORD
  /\ obj.out = "ok" /\ obj.auth_method = "oauth2"

\* C14: after a successful construction api_mode = rest implies oauth2, the
\* requests library and a REST client; api_mode='rest' with password
\* authentication fails without a network call; api_mode='rest' without the
\* requests library fails.
C14_RestNeedsOAuth2AndRequests ==
  /\ (obj.out = "ok" /\ obj.api_mode = "rest") =>
       /\ obj.auth_method = "oauth2" /\ environ.requests /\ obj.rest_client
       /\ api_mode = "rest"
  /\ (obj.out # "none" /\ environ.api_mode = "rest"
      /\ obj.auth_method = "password") => (obj.out = "raise" /\ ~obj.net)
  /\ (obj.out # "none" /\ environ.api_mode = "rest" /\ ~environ.requests) =>
       obj.out = "raise"

\* REST asked for with working password credentials
C14_Witness ==
  /\ environ.api_mode = "rest" /\ obj.auth_method = "password"
  /\ obj.out = "raise" /\ obj.error = "rest_requires_oauth2"

\* C15: when the REST client cannot be constructed, api_mode='auto' still
\* yields a session, in api_mode imap and without REST client, none of whose
\* calls sends a REST request; api_mode='rest' makes construction fail.
C15_RestInitFailureDowngrades ==
  obj.rest_init_failed =>
    /\ environ.api_mode = "auto" =>
         /\ obj.out = "ok" /\ obj.api_mode = "imap" /\ ~obj.rest_client
         /\ api_mode = "imap" /\ last.restReqs = 0
    /\ environ.api_mode = "rest" => obj.out = "raise"

\* the downgraded session has sent a mail over SMTP
C15_Witness ==
  /\ obj.rest_init_failed /\ environ.api_mode = "auto" /\ obj.out = "ok"
  /\ last.op = "send" /\ last.out = "ret" /\ last.imapAttempts = 1

-----------------------------------------------------------------------------
(* Properties of the IMAP connection and of the per-id loops. *)

\* C16: between facade operations self.imap is None: every operation that
\* opens an IMAP connection has released it when it returns or raises, a
\* failed login included.
C16_ImapReleased ==
  imap = "none"

\* a bulk action that connected and then failed
C16_Witness ==
  /\ last.op = "bulk" /\ last.out = "raise"
  /\ last.imapAttempts >= 1 /\ last.imapFail /\ imap = "none"

IsOld(mb, id) ==
  IF IsRestId(id)
  THEN \E i \in 1..Len(mb) : RestId(mb[i].uid) = id /\ mb[i].old
  ELSE id \in 1..Len(mb) /\ mb[id].old

\* C18: every message a bulk_action matches, and every message search_emails
\* returns for a query other than ALL, lies inside the recency window,
\* whether the search ran over REST or over IMAP.
C18_MatchesInsideWindow ==
  (/\ last.out = "ret"
   /\ last.op = "bulk" \/ (last.op = "search" /\ last.query # "ALL")) =>
    \A id \in Range(last.val) : ~IsOld(last.before, id)

-----------------------------------------------------------------------------
(* Properties of the token record and of the token file. *)

\* C19: after a successful refresh the record has access_token and
\* expires_in from the response, created_at = now, the response's
\* refresh_token if it has one and the previous one otherwise, client_id as
\* before, and the token file holds exactly this record.
C19_RefreshedRecord ==
  \A r \in tlast.refreshes :
    /\ r.after.access_token = r.body.access_token
    /\ r.after.expires_in = r.body.expires_in
    /\ r.after.created_at = tlast.at
    /\ r.after.refresh_token =
         IF "refresh_token" \in DOMAIN r.body THEN r.body.refresh_token
         ELSE r.before.refresh_token
    /\ r.after.client_id = r.before.client_id
    /\ r.file = r.after

\* an IMAP connect whose refresh was answered with a rotated refresh token
C19_Witness ==
  /\ tlast.op = "connect_imap"
  /\ \E r \in tlast.refreshes :
       /\ "refresh_token" \in DOMAIN r.body
       /\ r.after.refresh_token # r.before.refresh_token
       /\ token_file = r.after

\* C20: save_oauth_tokens is atomic: whenever a save is cut short, the token
\* file holds the complete previous record or the complete new one, never an
\* empty or partly written one.
C20_TokenFileNeverTorn ==
  token_file # TornFile

-----------------------------------------------------------------------------
(* Properties of the command line. *)

\* C21: the doctor command constructs no ZohoEmail session, attempts no IMAP
\* or SMTP login and no token refresh, does not write the token file, and
\* exits 0, whether credentials and the token file are present, absent,
\* expired or unparseable.
C21_DoctorNeedsNoCredentials ==
  report.ran =>
    /\ report.exit = 0
    /\ ~report.constructed /\ obj = NoObject /\ session = "none"
    /\ report.logins = 0 /\ imap = "none"
    /\ report.refreshes = 0 /\ authsrv = [rt |-> 0, issued |-> 0]
    /\ report.writes = 0 /\ token_file = NoTokens
    /\ report.token_file_readable = "no" <=> environ.file = "corrupt"

\* doctor run on an unparseable token file and without any credentials
C21_Witness ==
  /\ report.ran /\ report.exit = 0
  /\ environ.file = "corrupt" /\ ~environ.EMAIL /\ ~environ.PASSWORD
  /\ report.token_file_readable = "no" /\ report.connects = 3

-----------------------------------------------------------------------------
(* Properties of the session object. *)

\* the REST half of the call failed: no request of it was answered with 200
RestFailed(call) ==
  call.reqs = <<>> \/ call.reqs[Len(call.reqs)].status # "200"

\* the REST client was called: it sent a request or asked for a token
RestAttempted(call) ==
  call.reqs # <<>> \/ \E e \in call.events : e.by = "_make_request"

\* C22: while the session lives, api_mode and auth_method do not change, a
\* call that fell back from REST to IMAP included, so every get_unread_count
\* of a rest session goes to the REST client first; of the credential record
\* only access_token, refresh_token, expires_in and created_at may change.
C22_SessionFixedAfterConstruction ==
  [][(session = "ready" /\ session' = "ready") =>
       /\ api_mode' = api_mode /\ auth_method' = auth_method
       /\ oauth_tokens'.client_id = oauth_tokens.client_id
       /\ rest_tokens'.client_id = rest_tokens.client_id
       /\ (api_mode = "rest" /\ tlast'.op = "get_unread_count")
            => RestAttempted(tlast')]_vars

\* a rest session after a get_unread_count whose REST half failed and whose
\* IMAP half refreshed the token and logged in
C22_Witness ==
  /\ session = "ready" /\ api_mode = "rest" /\ auth_method = "oauth2"
  /\ tlast.op = "get_unread_count" /\ tlast.out = "ret"
  /\ tlast.reqs # <<>> /\ RestFailed(tlast)
  /\ \E r \in tlast.refreshes : oauth_tokens = r.after

-----------------------------------------------------------------------------
(* Properties of the IMAP delete. *)

\* C23: a delete_emails call that reaches its IMAP loop issues exactly one
\* EXPUNGE, after \Deleted has been attempted on every requested id and while
\* the connection is still held; when that EXPUNGE fails (it raises, or the
\* server answers NO) the call raises and returns no success/failed result.
C23_OneExpungeCommitsOrRaises ==
  (last.op = "delete_emails" /\ last.expunges # <<>>) =>
    /\ Len(last.expunges) = 1
    /\ last.expunges[1].after = Len(last.req)
    /\ last.expunges[1].conn # "none"
    /\ last.expunges[1].status # "ok" =>
         (last.out = "raise" /\ last.res # "partition")

-----------------------------------------------------------------------------
(* Properties of argument validation. *)

\* the call lacks a required argument: an empty id list, no target folder,
\* no email id
MissingArgument(call) ==
  \/ /\ call.op \in {"mark_as_read", "mark_as_unread", "delete_emails",
                      "move_emails"}
     /\ call.req = <<>>
  \/ call.op = "move_emails" /\ ~call.target
  \/ /\ call.op \in {"get", "get_attachments", "download_attachment"}
     /\ call.req = <<0>>

\* C24: a facade call with a missing required argument raises before any
\* REST request is sent and before any IMAP connection is opened, in both
\* api_modes, and leaves the folder as it was.
C24_MissingArgumentFailsFirst ==
  MissingArgument(last) =>
    /\ last.out = "raise"
    /\ last.restReqs = 0 /\ last.imapAttempts = 0
    /\ ~last.restFail /\ ~last.imapFail /\ last.mut = {}
    /\ mbox = last.before

\* a rest session asked to move two found messages to no folder
C24_Witness ==
  /\ api_mode = "rest" /\ last.op = "move_emails"
  /\ Len(last.req) = 2 /\ ~last.target
  /\ last.out = "raise" /\ last.restReqs = 0 /\ last.imapAttempts = 0


\* C25: bulk_action with an action other than mark-read, mark-unread and
\* delete raises, without a search or any other transport call (no REST
\* request, no IMAP connection) and without changing a message.
C25_UnknownActionFailsFirst ==
  (last.op = "bulk" /\ last.action \notin Actions) =>
    /\ last.out = "raise"
    /\ last.restReqs = 0 /\ last.imapAttempts = 0 /\ last.mut = {}
    /\ mbox = last.before

-----------------------------------------------------------------------------
(* The query translations, each applied to the same query. *)

InitTranslate ==
  /\ mbox = <<>> /\ api_mode = "none" /\ account_id = FALSE /\ imap = "none"
  /\ last = NoCall
  /\ TokensIdle
  /\ ExpiryIdle
  /\ InitIdle
  /\ imap_query \in QueryTexts
  /\ search_query = Unset
  /\ rest_query = Unset
  /\ CliIdle
  /\ NewsIdle

\* search_emails in api_mode rest makes its search_query
SearchTranslates ==
  /\ search_query = Unset
  /\ search_query' = inline_search_query(imap_query)
  /\ UNCHANGED <<facadeVars, tokenVars, expiryVars, initVars, imap_query,
                 rest_query, cliVars, newsVars>>

\* bulk_action in api_mode rest makes its rest_query
BulkTranslates ==
  /\ rest_query = Unset
  /\ rest_query' = convert_imap_search_to_rest(imap_query)
  /\ UNCHANGED <<facadeVars, tokenVars, expiryVars, initVars, imap_query,
                 search_query, cliVars, newsVars>>

NextTranslate ==
  \/ SearchTranslates
  \/ BulkTranslates

SpecTranslate == InitTranslate /\ [][NextTranslate]_vars

\* C26: the two translations give the same REST query for every query:
\* SUBJECT "x" gives subject:x, FROM "x" gives sender:x, and a query that
\* matches no pattern gives entire:<query>.
C26_TranslatorsAgree ==
  (search_query # Unset /\ rest_query # Unset) =>
    /\ search_query = rest_query
    /\ imap_query = <<"FROM", " ", "quote", "word", "quote">>
         => rest_query = <<"sender:", "word">>
    /\ imap_query = <<"word">> => rest_query = <<"entire:", "word">>

-----------------------------------------------------------------------------
(* The empty-spam and empty-trash commands, run on the folder they name. *)

InitCli ==
  /\ mbox \in Mailboxes
  /\ api_mode \in {"rest", "imap"}
  /\ account_id = FALSE
  /\ imap = "none"
  /\ last = NoCall
  /\ TokensIdle
  /\ ExpiryIdle
  /\ InitIdle
  /\ TranslateIdle
  /\ argv \in Argvs
  /\ NewsIdle

\* the command: zoho.bulk_action("ALL", "delete", folder=..., dry_run=dry_run)
EmptyFolder(command) ==
  /\ Idle
  /\ LET dry_run == empty_dry_run(strip_verbose(argv)) IN
     \E r \in bulk_action(Begin, api_mode, "ALL", "delete", DefaultLimit,
                          dry_run, 0) :
       Commit(r, Call(command, "ALL", "delete", DefaultLimit, dry_run, r.val, r))

\* python3 zoho-email.py empty-spam [--dry-run] [--execute]
EmptySpam == EmptyFolder("empty-spam")

\* python3 zoho-email.py empty-trash [--dry-run] [--execute]
EmptyTrash == EmptyFolder("empty-trash")

NextCli ==
  \/ EmptySpam
  \/ EmptyTrash
  \/ Report

SpecCli == InitCli /\ [][NextCli]_vars

\* C27: unless --execute is given and --dry-run is not, empty-spam and
\* empty-trash call bulk_action with dry_run=True and delete nothing: no
\* mutating transport operation is issued and the folder stays as it was.
C27_EmptyDeletesOnlyOnExecute ==
  (/\ last.op \in {"empty-spam", "empty-trash"}
   /\ ~("--execute" \in Range(argv) /\ "--dry-run" \notin Range(argv))) =>
    /\ last.dry
    /\ last.mut = {} /\ mbox = last.before
    /\ last.out = "ret" => last.res = "dry"

\* empty-trash --execute --dry-run on a folder with messages: a preview
C27_Witness ==
  /\ last.op = "empty-trash"
  /\ argv = <<"--execute", "--dry-run">>
  /\ last.dry /\ last.res = "dry" /\ last.toproc = NMsg

-----------------------------------------------------------------------------
(* run_technews: the fetches complete in any order. *)

InitNews ==
  /\ mbox = <<>> /\ api_mode = "none" /\ account_id = FALSE /\ imap = "none"
  /\ last = NoCall
  /\ TokensIdle
  /\ ExpiryIdle
  /\ InitIdle
  /\ TranslateIdle
  /\ CliIdle
  /\ \E n \in 1..MaxStories : stories = Stories(n)
  /\ futures = {}
  /\ articles = <<>>
  /\ news_pc = "fetched"

newsRest == <<facadeVars, tokenVars, expiryVars, initVars, translateVars, cliVars>>

\* fetch_multiple: every url is submitted to the pool
SubmitFetches ==
  /\ news_pc = "fetched"
  /\ futures' = 1..Len(stories)
  /\ articles' = <<>>
  /\ news_pc' = "fetching"
  /\ UNCHANGED <<newsRest, stories>>

\* a running fetch completes, as_completed hands it out, its result is appended
FetchCompletes ==
  /\ news_pc = "fetching"
  /\ \E i \in Running, success \in BOOLEAN :
       /\ futures' = futures \ {i}
       /\ articles' = Append(articles, fetch_article(stories[i].url, success))
  /\ UNCHANGED <<newsRest, stories, news_pc>>

\* fetch_multiple returns; step 3 merges the articles into the stories
MergeContent ==
  /\ news_pc = "fetching" /\ futures = {}
  /\ stories' = merge(stories, articles)
  /\ news_pc' = "merged"
  /\ UNCHANGED <<newsRest, futures, articles>>

NextNews ==
  \/ SubmitFetches
  \/ FetchCompletes
  \/ MergeContent

SpecNews == InitNews /\ [][NextNews]_vars

\* C28: after the merge, the content and the summary a story got come from
\* the article fetched from that story's own url, whatever the order in which
\* the parallel fetches completed.
C28_MergedContentIsOwn ==
  news_pc = "merged" =>
    \A i \in 1..Len(stories) :
      LET own == CHOOSE a \in Range(articles) : a.url = stories[i].url IN
      /\ stories[i].content # Absent => stories[i].content = own.content
      /\ stories[i].summary # Absent => stories[i].summary = dict_get(own.summary)

-----------------------------------------------------------------------------
(* Properties of the two credential copies of one session. *)

\* C29: within one session every token-endpoint request sends the refresh
\* token the server issued last, also a facade refresh that follows a
\* rotation by the REST client, and an operation that rewrites the token file
\* does not replace its record by an older one.
C29_RefreshSendsLatestToken ==
  session = "ready" =>
    /\ \A e \in tlast.events : e.sent = e.valid
    /\ (tlast.op # "none" /\ token_file \notin {tlast.before.file, TornFile}) =>
         /\ token_file.access_token >= tlast.before.file.access_token
         /\ token_file.refresh_token >= tlast.before.file.refresh_token

\* C30: a refresh that fails leaves the in-memory record of the object that
\* made it and the token file as they were before the attempt.
C30_FailedRefreshChangesNothing ==
  (/\ tlast.op \in {"connect_imap", "_smtp_login", "_make_request"}
   /\ tlast.events # {} /\ tlast.refreshes = {}) =>
    /\ token_file = tlast.before.file
    /\ oauth_tokens = tlast.before.mem
    /\ rest_tokens = tlast.before.rest

====
